---- MODULE Spec2Model ----
(***************************************************************************)
(* Region bundle resolution (loadRegionBundle and its loaders) of the      *)
(* avalanche dashboard, modelled from the server-side loader source.       *)
(* After it come listRegions, the account routes (register, credentials    *)
(* sign-in, login page) and the ModelParquetTable component.               *)
(*                                                                         *)
(* JavaScript values are records [k |-> kind, v |-> payload]:              *)
(*   undef / null   payload <<>>                                           *)
(*   bool           payload TRUE / FALSE                                   *)
(*   num            payload an integer                                     *)
(*   str            payload a sequence of tokens (see below)               *)
(*   arr            payload a sequence of values                           *)
(*   obj            payload a sequence of entries [key, val] in insertion  *)
(*                  order (the order Object.entries enumerates)            *)
(* A string is a sequence of tokens.  A token is one character whose case  *)
(* or class matters ("S", "s", "_", " ", "/") or a chunk of lower-case     *)
(* text that the code never looks inside ("outh", "forecast.json").        *)
(***************************************************************************)
EXTENDS Integers, Sequences, FiniteSets, TLC

VARIABLES
  fs,           \* the data files: slot of a path (SlotOf) -> name of its text
  shouldCache,  \* process.env.NODE_ENV === 'production'
  bundleCache,  \* the Map bundleCache: region key -> reference to a bundle
  calls,        \* the calls of loadRegionBundle made so far, in start order
  clock,        \* the wall clock new Date() reads
  heap,         \* the bundle objects allocated so far; a reference is an index
  callLimit,    \* how many calls the environment still makes
  writeLimit,   \* how many file changes the publisher still makes
  regionLists,  \* the calls of listRegions made so far, in start order
  users,        \* the User table: email -> row
  authLog,      \* the register requests and credential sign-ins answered so far
  callback,     \* the login page as last rendered: the raw and the sanitized callbackUrl
  component     \* the state of the mounted ModelParquetTable

vars == <<fs, shouldCache, bundleCache, calls, clock, heap, callLimit, writeLimit, regionLists,
          users, authLog, callback, component>>

\* the state of the region loader, and the state of the pages
serverVars == <<fs, shouldCache, bundleCache, calls, clock, heap, callLimit, writeLimit, regionLists>>
pageVars == <<users, authLog, callback, component>>

\* ------------------------------------------------------------------------
\* JavaScript values
\* ------------------------------------------------------------------------
Undef == [k |-> "undef", v |-> <<>>]
Null == [k |-> "null", v |-> <<>>]
Bool(b) == [k |-> "bool", v |-> b]
Num(n) == [k |-> "num", v |-> n]
Str(s) == [k |-> "str", v |-> s]
Arr(a) == [k |-> "arr", v |-> a]
Obj(e) == [k |-> "obj", v |-> e]
E(key, val) == [key |-> key, val |-> val]
EmptyArr == Arr(<<>>)
EmptyObj == Obj(<<>>)

\* !x is false
Truthy(x) ==
  CASE x.k \in {"undef", "null"} -> FALSE
    [] x.k = "bool" -> x.v
    [] x.k = "num" -> x.v # 0
    [] x.k = "str" -> Len(x.v) > 0
    [] OTHER -> TRUE

\* a ?? b
Coalesce(a, b) == IF a.k \in {"undef", "null"} THEN b ELSE a

IsArray(x) == x.k = "arr"

HasKey(x, key) == x.k = "obj" /\ \E i \in 1..Len(x.v) : x.v[i].key = key

\* x.key for a value x that is neither undefined nor null (a property the
\* value does not own reads as undefined); x?.key for any x
Get(x, key) ==
  IF HasKey(x, key)
    THEN x.v[CHOOSE i \in 1..Len(x.v) : x.v[i].key = key].val
    ELSE Undef

\* x.length
LengthOf(x) == IF x.k \in {"arr", "str"} THEN Num(Len(x.v)) ELSE Get(x, "length")

\* x[0]
First(x) == IF x.k = "arr" /\ Len(x.v) > 0 THEN x.v[1] ELSE Get(x, "0")

\* Object.keys(x), as an array of strings
ObjectKeys(x) ==
  IF x.k = "obj" THEN Arr([i \in 1..Len(x.v) |-> Str(<<x.v[i].key>>)]) ELSE EmptyArr

\* result[key] = val on an object under construction
SetKey(o, key, val) ==
  IF HasKey(o, key)
    THEN Obj([i \in 1..Len(o.v) |-> IF o.v[i].key = key THEN E(key, val) ELSE o.v[i]])
    ELSE Obj(Append(o.v, E(key, val)))

\* ------------------------------------------------------------------------
\* Strings
\* ------------------------------------------------------------------------
\* String.prototype.toLowerCase, token by token
LowerTok(t) ==
  CASE t = "S" -> "s"
    [] t = "R" -> "r"
    [] t = "W" -> "w"
    [] t = "HTTP:" -> "http:"
    [] OTHER -> t

ToLowerCase(s) == [i \in 1..Len(s) |-> LowerTok(s[i])]

\* the tokens the regular expression class \s matches
IsSpace(t) == t \in {" ", "\t"}

\* s.replace(/_/g, ' ')
ReplaceUnderscores(s) == [i \in 1..Len(s) |-> IF s[i] = "_" THEN " " ELSE s[i]]

\* s.replace(/\s+/g, ' ')
RECURSIVE CollapseSpaces(_)
CollapseSpaces(s) ==
  IF s = <<>> THEN <<>>
  ELSE IF IsSpace(s[1])
    THEN IF Len(s) > 1 /\ IsSpace(s[2])
           THEN CollapseSpaces(Tail(s))
           ELSE <<" ">> \o CollapseSpaces(Tail(s))
    ELSE <<s[1]>> \o CollapseSpaces(Tail(s))

\* s.trim()
RECURSIVE TrimLeft(_)
TrimLeft(s) == IF s # <<>> /\ IsSpace(s[1]) THEN TrimLeft(Tail(s)) ELSE s
RECURSIVE TrimRight(_)
TrimRight(s) ==
  IF s # <<>> /\ IsSpace(s[Len(s)]) THEN TrimRight(SubSeq(s, 1, Len(s) - 1)) ELSE s
Trim(s) == TrimRight(TrimLeft(s))

\* String(value) for the values JSON.parse and csv-parse produce
ToStr(x) ==
  CASE x.k = "str" -> x.v
    [] x.k = "num" -> <<"#num">>
    [] x.k = "bool" -> IF x.v THEN <<"true">> ELSE <<"false">>
    [] x.k = "undef" -> <<"undefined">>
    [] x.k = "null" -> <<"null">>
    [] x.k = "arr" -> <<"#arr">>
    [] OTHER -> <<"[object Object]">>

\* normalizeRegion without its toLowerCase()
normalizeRegionCased(value) ==
  Trim(CollapseSpaces(ReplaceUnderscores(ToStr(Coalesce(value, Str(<<>>))))))

normalizeRegion(value) ==
  Trim(CollapseSpaces(ReplaceUnderscores(ToLowerCase(ToStr(Coalesce(value, Str(<<>>)))))))

\* ------------------------------------------------------------------------
\* Paths and files
\* ------------------------------------------------------------------------
\* A path is the sequence of its segments below process.cwd(); a segment is a
\* string.  A leading ".." segment is a path that has left process.cwd().
Seg(name) == <<name>>

RECURSIVE SplitFrom(_, _)
\* the "/"-separated segments of s, cur being the segment under construction
SplitFrom(s, cur) ==
  IF s = <<>> THEN (IF cur = <<>> THEN <<>> ELSE <<cur>>)
  ELSE IF s[1] = "/"
    THEN (IF cur = <<>> THEN <<>> ELSE <<cur>>) \o SplitFrom(Tail(s), <<>>)
    ELSE SplitFrom(Tail(s), Append(cur, s[1]))

SplitPath(s) == SplitFrom(s, <<>>)

RECURSIVE NormalizeFrom(_, _)
\* path.normalize: "." is dropped and ".." removes the segment before it
NormalizeFrom(segs, acc) ==
  IF segs = <<>> THEN acc
  ELSE IF segs[1] = Seg(".") THEN NormalizeFrom(Tail(segs), acc)
  ELSE IF segs[1] = Seg("..") /\ acc # <<>> /\ acc[Len(acc)] # Seg("..")
    THEN NormalizeFrom(Tail(segs), SubSeq(acc, 1, Len(acc) - 1))
  ELSE NormalizeFrom(Tail(segs), Append(acc, segs[1]))

\* path.join(process.cwd(), ...parts), each part a string
RECURSIVE SplitAll(_)
SplitAll(parts) == IF parts = <<>> THEN <<>> ELSE SplitPath(parts[1]) \o SplitAll(Tail(parts))
PathJoin(parts) == NormalizeFrom(SplitAll(parts), <<>>)

DATA_ROOT == <<Seg("public"), Seg("data")>>
SHARED_DIR == <<Seg("public"), Seg("data"), Seg("shared")>>

\* the string of a path, segments joined by "/"
RECURSIVE PathString(_)
PathString(p) == IF p = <<>> THEN <<>> ELSE <<"/">> \o p[1] \o PathString(Tail(p))

\* s.endsWith(suffix)
EndsWith(s, suffix) ==
  Len(suffix) <= Len(s) /\ SubSeq(s, Len(s) - Len(suffix) + 1, Len(s)) = suffix

\* a nullable absolute path
NoPath == [k |-> "null", v |-> <<>>]
AbsPath(p) == [k |-> "path", v |-> p]
\* a TypeError raised by a synchronous call
Thrown == [k |-> "throw", v |-> <<>>]

\* File contents: absent (ENOENT), bad (text that JSON.parse and csv-parse
\* reject), json (text that JSON.parse turns into v), csv (text that
\* csv-parse turns into the rows v, objects keyed by the header row).
Absent == [k |-> "absent", v |-> Undef]
Bad == [k |-> "bad", v |-> Undef]
Json(v) == [k |-> "json", v |-> v]
Csv(rows) == [k |-> "csv", v |-> Arr(rows)]

\* fs.readFile: a path the file system does not hold is ENOENT.  fs holds
\* the name of each file's text, SlotOf (below) names the file at a path and
\* TextOf (below) gives the contents by name.
RECURSIVE TextOf(_)
RECURSIVE SlotOf(_)
FileAt(p) == IF SlotOf(p) \in DOMAIN fs THEN TextOf(fs[SlotOf(p)]) ELSE Absent

\* readJsonIfPresent whose catch returns an empty object for text that does
\* not parse
readJsonOrEmpty(absPath) ==
  IF absPath.k = "null" THEN Null
  ELSE IF FileAt(absPath.v).k = "json" THEN FileAt(absPath.v).v
  ELSE IF FileAt(absPath.v).k = "bad" THEN EmptyObj
  ELSE Null

readJsonIfPresent(absPath) ==
  IF absPath.k = "null" THEN Null
  ELSE IF FileAt(absPath.v).k = "json" THEN FileAt(absPath.v).v ELSE Null

readCsvIfPresent(absPath) ==
  IF absPath.k = "null" THEN Null
  ELSE IF FileAt(absPath.v).k = "csv" THEN FileAt(absPath.v).v ELSE Null

\* /^https?:/i.test(s)
IsHttp(s) == s # <<>> /\ LowerTok(s[1]) \in {"http:", "https:"}

resolvePublicAsset(assetPath) ==
  IF ~Truthy(assetPath) THEN NoPath
  ELSE IF IsHttp(ToStr(assetPath)) THEN NoPath
  ELSE IF assetPath.k # "str" THEN Thrown
  ELSE AbsPath(PathJoin(<<<<"public">>,
                          IF assetPath.v[1] = "/" THEN Tail(assetPath.v) ELSE assetPath.v>>))

\* ------------------------------------------------------------------------
\* Normalizer
\* ------------------------------------------------------------------------
BANDS == <<"above_treeline", "treeline", "below_treeline">>

\* new Date().toISOString()
TimeTok == <<"t0", "t1", "t2", "t3", "t4">>
NowIso == Str(<<TimeTok[clock + 1]>>)

\* `/data/${region}/` + name
DataUrl(region, name) == Str(<<"/", "data", "/">> \o region \o <<"/", name>>)
DefaultTiles == Str(<<"https:", "//tile.openstreetmap.org/">>)

\* withArtifactDefaults stamping every manifest with the current time
withArtifactDefaultsFresh(region, manifest) ==
  LET artifacts == Coalesce(Get(manifest, "artifacts"), EmptyObj)
  IN Obj(<<
       E("region", Str(region)),
       E("run_time_utc", NowIso),
       E("version", Coalesce(Get(manifest, "version"), Str(<<"v0">>))),
       E("artifacts", Obj(<<
          E("forecast_json",
            Coalesce(Get(artifacts, "forecast_json"), DataUrl(region, "forecast.json"))),
          E("summary_json",
            Coalesce(Get(artifacts, "summary_json"), DataUrl(region, "summary.json"))),
          E("tiles_base", Coalesce(Get(artifacts, "tiles_base"), DefaultTiles)),
          E("station_parquet", Get(artifacts, "station_parquet")),
          E("quicklook_png", Get(artifacts, "quicklook_png"))>>))>>)

\* withArtifactDefaults passing tiles_base through without a default
withArtifactDefaultsNoTiles(region, manifest) ==
  LET artifacts == Coalesce(Get(manifest, "artifacts"), EmptyObj)
  IN Obj(<<
       E("region", Str(region)),
       E("run_time_utc", Coalesce(Get(manifest, "run_time_utc"), NowIso)),
       E("version", Coalesce(Get(manifest, "version"), Str(<<"v0">>))),
       E("artifacts", Obj(<<
          E("forecast_json",
            Coalesce(Get(artifacts, "forecast_json"), DataUrl(region, "forecast.json"))),
          E("summary_json",
            Coalesce(Get(artifacts, "summary_json"), DataUrl(region, "summary.json"))),
          E("tiles_base", Get(artifacts, "tiles_base")),
          E("station_parquet", Get(artifacts, "station_parquet")),
          E("quicklook_png", Get(artifacts, "quicklook_png"))>>))>>)

withArtifactDefaults(region, manifest) ==
  LET artifacts == Coalesce(Get(manifest, "artifacts"), EmptyObj)
  IN Obj(<<
       E("region", Str(region)),
       E("run_time_utc", Coalesce(Get(manifest, "run_time_utc"), NowIso)),
       E("version", Coalesce(Get(manifest, "version"), Str(<<"v0">>))),
       E("artifacts", Obj(<<
          E("forecast_json",
            Coalesce(Get(artifacts, "forecast_json"), DataUrl(region, "forecast.json"))),
          E("summary_json",
            Coalesce(Get(artifacts, "summary_json"), DataUrl(region, "summary.json"))),
          E("tiles_base", Coalesce(Get(artifacts, "tiles_base"), DefaultTiles)),
          E("station_parquet", Get(artifacts, "station_parquet")),
          E("quicklook_png", Get(artifacts, "quicklook_png"))>>))>>)

extractAvalancheArray(source) ==
  IF ~Truthy(source) THEN EmptyArr
  ELSE IF IsArray(source) THEN source
  ELSE IF IsArray(Get(source, "items")) THEN Get(source, "items")
  ELSE EmptyArr

\* Object.entries(map): own keys in insertion order (index keys for an array)
IndexKey == <<"0", "1", "2", "3", "4", "5">>
ObjectEntries(map) ==
  CASE map.k = "obj" -> map.v
    [] map.k = "arr" -> [i \in 1..Len(map.v) |-> E(IndexKey[i], map.v[i])]
    [] map.k = "str" -> [i \in 1..Len(map.v) |-> E(IndexKey[i], Str(<<map.v[i]>>))]
    [] OTHER -> <<>>

\* for (const [key, value] of entries) result[key] = Array.isArray(value) ? value : []
RECURSIVE CopyArrays(_, _)
CopyArrays(entries, result) ==
  IF entries = <<>> THEN result
  ELSE CopyArrays(Tail(entries),
         SetKey(result, entries[1].key,
                IF IsArray(entries[1].val) THEN entries[1].val ELSE EmptyArr))

\* for (const band of bands) if (!result[band]) result[band] = []
RECURSIVE FillBands(_, _)
FillBands(bands, result) ==
  IF bands = <<>> THEN result
  ELSE FillBands(Tail(bands),
         IF ~Truthy(Get(result, bands[1])) THEN SetKey(result, bands[1], EmptyArr)
         ELSE result)

\* ensureBandSummary without its loop over BANDS
ensureBandSummaryUnfilled(map) ==
  IF Truthy(map) THEN CopyArrays(ObjectEntries(map), EmptyObj) ELSE EmptyObj

ensureBandSummary(map) ==
  FillBands(BANDS, IF Truthy(map) THEN CopyArrays(ObjectEntries(map), EmptyObj) ELSE EmptyObj)

\* ensureBandTimeseries filling a legacy key beside the bands
ensureBandTimeseriesKeyed(map) ==
  FillBands(BANDS \o <<"legacy">>,
            IF Truthy(map) THEN CopyArrays(ObjectEntries(map), EmptyObj) ELSE EmptyObj)

ensureBandTimeseries(map) ==
  FillBands(BANDS, IF Truthy(map) THEN CopyArrays(ObjectEntries(map), EmptyObj) ELSE EmptyObj)

\* ------------------------------------------------------------------------
\* Format loaders: what each builds from the files it has read
\* ------------------------------------------------------------------------
\* list.filter((entry) => normalizeRegion(entry?.region) === want)
FilterRegion(list, want) ==
  LET Match(entry) == normalizeRegion(Get(entry, "region")) = want
  IN Arr(SelectSeq(list.v, Match))

\* loadStructuredBundle once summary.json has parsed to a truthy summaryData
StructuredBundle(region, summaryData, timeseriesData) ==
  LET manifest ==
        withArtifactDefaults(region, Obj(<<
          E("run_time_utc", Get(summaryData, "run_time_utc")),
          E("version", Get(summaryData, "version")),
          E("artifacts", Obj(<<
             E("forecast_json",
               IF Truthy(Get(summaryData, "forecast"))
                 THEN DataUrl(region, "summary.json")
                 ELSE DataUrl(region, "forecast.json")),
             E("summary_json", DataUrl(region, "summary.json")),
             E("tiles_base", Coalesce(Get(summaryData, "tiles_base"), DefaultTiles)),
             E("quicklook_png", Get(summaryData, "quicklook_png"))>>))>>))
  IN Obj(<<
       E("region", Str(region)),
       E("manifest", manifest),
       E("forecast", Coalesce(Get(summaryData, "forecast"), Null)),
       E("summary", Coalesce(Get(summaryData, "summary"), Null)),
       E("avalanches", Coalesce(Get(summaryData, "avalanches"), EmptyArr)),
       E("stationSummary", ensureBandSummary(Get(summaryData, "stations"))),
       E("stationTimeseries", ensureBandTimeseries(Get(timeseriesData, "stations"))),
       E("modelSummary", ensureBandSummary(Get(summaryData, "model"))),
       E("modelTimeseries", ensureBandTimeseries(Get(timeseriesData, "model")))>>)

\* loadBundleJson reading the payload as if it had the structured shape, its
\* flat blocks left out
LegacyBundleUnmapped(region, payload) == StructuredBundle(region, payload, payload)

\* loadBundleJson once bundle.json has parsed to a truthy payload
LegacyBundle(region, payload) ==
  LET manifest ==
        withArtifactDefaults(region, Obj(<<
          E("run_time_utc", Get(payload, "run_time_utc")),
          E("version", Get(payload, "version")),
          E("artifacts", Obj(<<
             E("forecast_json", DataUrl(region, "bundle.json")),
             E("summary_json", DataUrl(region, "bundle.json")),
             E("tiles_base", Coalesce(Get(payload, "tiles_base"), DefaultTiles)),
             E("quicklook_png", Get(payload, "quicklook_png"))>>))>>))
      weatherStations == Get(payload, "weatherStations")
      timeseries == Get(payload, "timeseries")
      modelTable == Get(payload, "modelTable")
  IN Obj(<<
       E("region", Str(region)),
       E("manifest", manifest),
       E("forecast", Coalesce(Get(payload, "forecast"), Null)),
       E("summary", Coalesce(Get(payload, "summary"), Null)),
       E("avalanches", Coalesce(Get(payload, "avalanches"), EmptyArr)),
       E("stationSummary", ensureBandSummary(
          IF Truthy(weatherStations) /\ Truthy(LengthOf(weatherStations))
            THEN Obj(<<E("legacy", Arr(<<Obj(<<
                   E("columns", ObjectKeys(Coalesce(First(weatherStations), EmptyObj))),
                   E("rows", weatherStations),
                   E("metadata", Obj(<<E("note", Str(<<"legacy bundle rows">>))>>))>>)>>))>>)
            ELSE Undef)),
       E("stationTimeseries", ensureBandTimeseries(
          IF Truthy(timeseries)
            THEN Obj(<<E("legacy", Arr(<<Obj(<<
                   E("station_id", Str(<<"legacy">>)),
                   E("station_name", Str(<<"Legacy">>)),
                   E("x", Get(timeseries, "x")),
                   E("series", Get(timeseries, "series"))>>)>>))>>)
            ELSE Undef)),
       E("modelSummary", ensureBandSummary(
          IF Truthy(modelTable)
            THEN Obj(<<E("legacy", Arr(<<Obj(<<
                   E("columns", Get(modelTable, "columns")),
                   E("rows", Get(modelTable, "rows")),
                   E("metadata", Get(modelTable, "metadata"))>>)>>))>>)
            ELSE Undef)),
       E("modelTimeseries", ensureBandTimeseries(
          IF Truthy(timeseries)
            THEN Obj(<<E("legacy_model", Arr(<<Obj(<<
                   E("variable", Str(<<"legacy">>)),
                   E("level", Str(<<"legacy">>)),
                   E("x", Get(timeseries, "x")),
                   E("series", Get(timeseries, "series"))>>)>>))>>)
            ELSE Undef))>>)

\* loadRegionBundle's last loader once its four parallel reads have settled
DiscreteBundle(region, manifest, forecast, summary, avalanches, weatherStations) ==
  LET legacySummary ==
        IF Truthy(LengthOf(weatherStations))
          THEN ensureBandSummary(Obj(<<E("legacy", Arr(<<Obj(<<
                 E("columns", ObjectKeys(Coalesce(First(weatherStations), EmptyObj))),
                 E("rows", weatherStations)>>)>>))>>))
          ELSE ensureBandSummary(Undef)
  IN Obj(<<
       E("region", Str(region)),
       E("manifest", manifest),
       E("forecast", forecast),
       E("summary", summary),
       E("avalanches", avalanches),
       E("stationSummary", legacySummary),
       E("stationTimeseries", ensureBandTimeseries(Undef)),
       E("modelSummary", ensureBandSummary(Undef)),
       E("modelTimeseries", ensureBandTimeseries(Undef))>>)

\* the files a resolution of `region` may read
RegionFile(region, name) ==
  AbsPath(NormalizeFrom(DATA_ROOT \o SplitPath(region) \o <<Seg(name)>>, <<>>))
SharedFile(name) == AbsPath(NormalizeFrom(SHARED_DIR \o <<Seg(name)>>, <<>>))

\* ------------------------------------------------------------------------
\* The data files the publisher may have written
\* ------------------------------------------------------------------------
SouthRockies == <<"s", "outh", "_", "r", "ockies">>       \* south_rockies
TagUnderscore == <<"S", "outh", "_", "R", "ockies">>      \* South_Rockies
TagLower == <<"s", "outh", " ", "r", "ockies">>           \* south rockies
TagSpace == <<"S", "outh", " ", "R", "ockies">>           \* South Rockies
TagWide == <<"S", "outh", " ", " ", "r", "ockies">>       \* South  rockies
TagJoined == <<"s", "outh", "r", "ockies">>               \* southrockies
TagOther == <<"W", "histler">>                            \* Whistler

Text(t) == Str(<<t>>)
Obs(id, tag) == Obj(<<E("id", Num(id)), E("region", Str(tag))>>)
Row(tag, temp) == Obj(<<E("region", Str(tag)), E("temp", Text(temp))>>)
Table(col) == Obj(<<E("columns", Arr(<<Text(col)>>)), E("rows", Arr(<<Obj(<<E(col, Num(1))>>)>>))>>)
Series(id) ==
  Obj(<<E("station_id", Text(id)), E("x", Arr(<<Text("2024-01-01T00:00:00Z")>>)),
        E("series", Arr(<<Obj(<<E("name", Text("temp")), E("values", Arr(<<Num(3)>>))>>)>>))>>)

Forecast1 ==
  Obj(<<E("dateIssued", Text("2024-01-01")),
        E("dangerRatings", Obj(<<E("above_treeline", Text("high")),
                                 E("treeline", Text("considerable")),
                                 E("below_treeline", Text("moderate"))>>)),
        E("problems", EmptyArr)>>)
Forecast2 ==
  Obj(<<E("dangerRatings", Obj(<<E("above_treeline", Text("low")),
                                 E("treeline", Text("low")),
                                 E("below_treeline", Text("low"))>>))>>)

\* summary.json
Summary1 ==
  Obj(<<E("region", Str(SouthRockies)),
        E("run_time_utc", Text("2024-01-02T00:00:00Z")),
        E("version", Text("v2")),
        E("forecast", Forecast1),
        E("summary", Obj(<<E("headline", Text("storm"))>>)),
        E("avalanches", Arr(<<Obs(10, TagUnderscore), Obs(11, TagOther)>>)),
        E("stations", Obj(<<E("above_treeline", Arr(<<Table("temp")>>)),
                            E("treeline", Text("n/a")),
                            E("alpine", Arr(<<Table("wind")>>))>>)),
        E("model", Obj(<<E("below_treeline", Arr(<<Table("snow")>>))>>))>>)
Summary2 == EmptyObj
SummaryFiles == {"absent", "bad", "Summary1", "Summary2"}

\* timeseries.json
Timeseries1 ==
  Obj(<<E("stations", Obj(<<E("above_treeline", Arr(<<Series("st1")>>))>>)),
        E("model", Obj(<<E("treeline", Arr(<<Series("m1")>>)), E("surface", Num(7))>>))>>)
TimeseriesFiles == {"absent", "bad", "Timeseries1"}

\* bundle.json
Bundle1 ==
  Obj(<<E("region", Str(SouthRockies)),
        E("version", Text("v1")),
        E("tiles_base", Str(<<"https:", "//tiles.example/">>)),
        E("forecast", Forecast2),
        E("weatherStations", Arr(<<Row(TagUnderscore, "-5"), Row(TagLower, "-7")>>)),
        E("avalanches", Arr(<<Obs(20, TagLower)>>)),
        E("timeseries", Obj(<<E("x", Arr(<<Text("2024-01-01T00:00:00Z")>>)),
                              E("series", Arr(<<Obj(<<E("name", Text("temp"))>>)>>))>>)),
        E("modelTable", Obj(<<E("columns", Arr(<<Text("hour")>>)),
                              E("rows", Arr(<<Obj(<<E("hour", Num(1))>>)>>))>>))>>)
Bundle2 == EmptyObj
Bundle3 ==
  Obj(<<E("region", Str(SouthRockies)),
        E("weatherStations", EmptyArr),
        E("timeseries", Obj(<<E("x", EmptyArr), E("series", EmptyArr)>>)),
        E("modelTable", Obj(<<E("columns", EmptyArr), E("rows", EmptyArr)>>))>>)
BundleFiles == {"absent", "bad", "Bundle1", "Bundle2", "Bundle3"}

\* manifest.json
Manifest1 ==
  Obj(<<E("region", Str(SouthRockies)),
        E("run_time_utc", Text("2024-01-03T00:00:00Z")),
        E("version", Text("v7")),
        E("artifacts", Obj(<<
           E("forecast_json", Str(<<"data", "/">> \o SouthRockies \o <<"/", "forecast.json">>)),
           E("summary_json", Str(<<"HTTP:", "//cdn.example/summary.json">>)),
           E("station_parquet", Str(<<"/", "data", "/", "stations.parquet">>))>>))>>)
Manifest2 ==
  Obj(<<E("version", Text("v3")),
        E("artifacts", Obj(<<E("forecast_json", Num(5)), E("tiles_base", Null)>>))>>)
ManifestFiles == {"absent", "bad", "Manifest1", "Manifest2"}
\* a manifest whose artifact locations hold parent-directory segments
Manifest3 ==
  Obj(<<E("version", Text("v9")),
        E("artifacts", Obj(<<
           E("forecast_json", Str(<<"..", "/", "..", "/", "secrets", "/", "forecast.json">>)),
           E("summary_json", Str(<<"/", "..", "/", "private", "/", "summary.json">>))>>))>>)

\* forecast.json
ForecastFiles == {"absent", "bad", "Forecast1"}

\* shared/avalanches.json and <region>/avalanches.json
SharedAvalanches1 ==
  Obj(<<E("items", Arr(<<Obs(1, TagUnderscore), Obs(2, TagOther), Obs(3, TagLower),
                         Obs(4, TagJoined), Obs(5, TagWide), Null,
                         Obj(<<E("id", Num(6))>>)>>))>>)
SharedAvalancheFiles == {"absent", "bad", "SharedAvalanches1"}
RegionalAvalanches1 == Arr(<<Obs(8, TagSpace), Obs(9, TagOther)>>)
RegionalAvalancheFiles == {"absent", "bad", "RegionalAvalanches1"}

\* shared/weather_station.csv and <region>/weather_station.csv
SharedStations1 == <<Row(TagUnderscore, "-5"), Row(TagOther, "-9"), Row(TagLower, "-6")>>
SharedStations2 == <<Row(TagOther, "-9")>>
SharedStationFiles == {"absent", "bad", "SharedStations1", "SharedStations2"}
RegionalStations1 == <<Row(TagSpace, "-4"), Obj(<<E("temp", Text("-3"))>>)>>
RegionalStationFiles == {"absent", "bad", "RegionalStations1"}

\* shared/regions.json
Regions1 == Arr(<<Str(SouthRockies), Str(ToLowerCase(TagOther))>>)
RegionsEmpty == EmptyArr
RegionsText == Str(SouthRockies)
RegionsObject == Obj(<<E("regions", Regions1)>>)
RegionsMixed == Arr(<<Str(SouthRockies), Num(5)>>)
RegionsFiles ==
  {"absent", "bad", "Regions1", "RegionsEmpty", "RegionsText", "RegionsObject", "RegionsMixed"}

\* the data root as fs.readdir with withFileTypes lists it
Dirent(name, isDirectory) == [name |-> name, isDirectory |-> isDirectory]
Dir(entries) == [k |-> "dir", v |-> entries]
DirEmpty == <<>>
DirShared == <<Dirent(<<"shared">>, TRUE)>>
DirOne == <<Dirent(SouthRockies, TRUE)>>
DirFiles == <<Dirent(<<"readme.md">>, FALSE), Dirent(<<"shared">>, FALSE)>>
DirRegions ==
  <<Dirent(<<"readme.md">>, FALSE), Dirent(ToLowerCase(TagOther), TRUE),
    Dirent(<<"shared">>, TRUE), Dirent(SouthRockies, TRUE)>>
DataRoots == {"absent", "bad", "DirEmpty", "DirShared", "DirOne", "DirFiles", "DirRegions"}

\* the contents of the text named n
TextOf(n) ==
  CASE n = "absent" -> Absent
    [] n = "bad" -> Bad
    [] n = "Summary1" -> Json(Summary1)
    [] n = "Summary2" -> Json(Summary2)
    [] n = "Timeseries1" -> Json(Timeseries1)
    [] n = "Bundle1" -> Json(Bundle1)
    [] n = "Bundle2" -> Json(Bundle2)
    [] n = "Bundle3" -> Json(Bundle3)
    [] n = "Manifest1" -> Json(Manifest1)
    [] n = "Manifest2" -> Json(Manifest2)
    [] n = "Manifest3" -> Json(Manifest3)
    [] n = "Forecast1" -> Json(Forecast1)
    [] n = "SharedAvalanches1" -> Json(SharedAvalanches1)
    [] n = "RegionalAvalanches1" -> Json(RegionalAvalanches1)
    [] n = "SharedStations1" -> Csv(SharedStations1)
    [] n = "SharedStations2" -> Csv(SharedStations2)
    [] n = "RegionalStations1" -> Csv(RegionalStations1)
    [] n = "Regions1" -> Json(Regions1)
    [] n = "RegionsEmpty" -> Json(RegionsEmpty)
    [] n = "RegionsText" -> Json(RegionsText)
    [] n = "RegionsObject" -> Json(RegionsObject)
    [] n = "RegionsMixed" -> Json(RegionsMixed)
    [] n = "DirEmpty" -> Dir(DirEmpty)
    [] n = "DirShared" -> Dir(DirShared)
    [] n = "DirOne" -> Dir(DirOne)
    [] n = "DirFiles" -> Dir(DirFiles)
    [] n = "DirRegions" -> Dir(DirRegions)

\* the paths of the data files, and what each may hold
SummaryPath == RegionFile(SouthRockies, "summary.json").v
TimeseriesPath == RegionFile(SouthRockies, "timeseries.json").v
BundlePath == RegionFile(SouthRockies, "bundle.json").v
ManifestPath == RegionFile(SouthRockies, "manifest.json").v
ForecastPath == RegionFile(SouthRockies, "forecast.json").v
SharedAvalanchesPath == SharedFile("avalanches.json").v
RegionalAvalanchesPath == RegionFile(SouthRockies, "avalanches.json").v
SharedStationsPath == SharedFile("weather_station.csv").v
RegionalStationsPath == RegionFile(SouthRockies, "weather_station.csv").v
RegionsPath == SharedFile("regions.json").v

\* the file a path names
SlotOf(p) ==
  CASE p = SummaryPath -> "summary.json"
    [] p = TimeseriesPath -> "timeseries.json"
    [] p = BundlePath -> "bundle.json"
    [] p = ManifestPath -> "manifest.json"
    [] p = ForecastPath -> "forecast.json"
    [] p = SharedAvalanchesPath -> "shared/avalanches.json"
    [] p = RegionalAvalanchesPath -> "avalanches.json"
    [] p = SharedStationsPath -> "shared/weather_station.csv"
    [] p = RegionalStationsPath -> "weather_station.csv"
    [] p = RegionsPath -> "shared/regions.json"
    [] p = DATA_ROOT -> "."
    [] OTHER -> "none"

Slots ==
  {"summary.json", "timeseries.json", "bundle.json", "manifest.json", "forecast.json",
   "shared/avalanches.json", "avalanches.json", "shared/weather_station.csv",
   "weather_station.csv"}

MkFs(summary, timeseries, bundle, manifest, forecast, sharedAv, regionalAv, sharedSt, regionalSt) ==
  [slot \in Slots |->
     CASE slot = "summary.json" -> summary
       [] slot = "timeseries.json" -> timeseries
       [] slot = "bundle.json" -> bundle
       [] slot = "manifest.json" -> manifest
       [] slot = "forecast.json" -> forecast
       [] slot = "shared/avalanches.json" -> sharedAv
       [] slot = "avalanches.json" -> regionalAv
       [] slot = "shared/weather_station.csv" -> sharedSt
       [] slot = "weather_station.csv" -> regionalSt]

\* every combination of the data files
FileSystems ==
  {MkFs(a, b, c, d, e, f, g, h, i) :
     a \in SummaryFiles, b \in TimeseriesFiles, c \in BundleFiles, d \in ManifestFiles,
     e \in ForecastFiles, f \in SharedAvalancheFiles, g \in RegionalAvalancheFiles,
     h \in SharedStationFiles, i \in RegionalStationFiles}

\* the deployments the concurrent runs start from
NoFiles == [slot \in Slots |-> "absent"]
Deployments ==
  {NoFiles,
   MkFs("Summary1", "Timeseries1", "Bundle1", "absent", "absent",
        "absent", "absent", "absent", "absent"),
   MkFs("bad", "absent", "absent", "Manifest1", "Forecast1",
        "SharedAvalanches1", "RegionalAvalanches1", "SharedStations1", "absent")}

\* the files the publishing pipeline may write while the server runs
Publications ==
  {<<"summary.json", "absent">>, <<"summary.json", "Summary2">>,
   <<"timeseries.json", "absent">>, <<"bundle.json", "Bundle1">>,
   <<"manifest.json", "Manifest2">>, <<"avalanches.json", "RegionalAvalanches1">>}

\* the region parameters the routing layer passes
Params == {TagUnderscore, TagLower}

\* ------------------------------------------------------------------------
\* Bounds
\* ------------------------------------------------------------------------
MaxCalls == 3
MaxInFlight == 2
MaxWrites == 1
MaxClock == 1

\* ------------------------------------------------------------------------
\* loadRegionBundle, one action per await that a file read completes
\* ------------------------------------------------------------------------
\* one round of loadWeatherStations' loop over its candidates: the rows to
\* return, or undefined to go on with the next candidate
StationsFrom(region, abs) ==
  LET want == normalizeRegion(Str(region))
      rows == readCsvIfPresent(abs)
      filtered == FilterRegion(rows, want)
  IN IF ~Truthy(rows) THEN Undef
     ELSE IF Len(filtered.v) > 0
              \/ EndsWith(PathString(abs.v), region \o <<"/", "weather_station.csv">>)
       THEN filtered
       ELSE Undef

\* loadWeatherStations trying the regional candidate before the shared one
loadWeatherStationsRegional(region) ==
  LET shared == StationsFrom(region, SharedFile("weather_station.csv"))
      regional == StationsFrom(region, RegionFile(region, "weather_station.csv"))
  IN IF regional.k # "undef" THEN regional
     ELSE IF shared.k # "undef" THEN shared
     ELSE EmptyArr

loadWeatherStations(region) ==
  LET shared == StationsFrom(region, SharedFile("weather_station.csv"))
      regional == StationsFrom(region, RegionFile(region, "weather_station.csv"))
  IN IF shared.k # "undef" THEN shared
     ELSE IF regional.k # "undef" THEN regional
     ELSE EmptyArr

\* loadAvalanches falling back to the regional file only when the shared file
\* holds nothing, the way loadWeatherStations prefers its first candidate
loadAvalanchesShared(region) ==
  LET want == normalizeRegion(Str(region))
      shared == extractAvalancheArray(readJsonIfPresent(SharedFile("avalanches.json")))
      regional == extractAvalancheArray(readJsonIfPresent(RegionFile(region, "avalanches.json")))
  IN FilterRegion(IF Len(shared.v) > 0 THEN shared ELSE regional, want)

loadAvalanches(region) ==
  LET want == normalizeRegion(Str(region))
      shared == extractAvalancheArray(readJsonIfPresent(SharedFile("avalanches.json")))
      regional == extractAvalancheArray(readJsonIfPresent(RegionFile(region, "avalanches.json")))
  IN FilterRegion(Arr(shared.v \o regional.v), want)

\* loadSummary and loadForecast: the value read, or Thrown when
\* resolvePublicAsset raises
SummaryAsset(manifest) == resolvePublicAsset(Get(Get(manifest, "artifacts"), "summary_json"))
loadSummary(manifest) ==
  IF SummaryAsset(manifest).k = "throw" THEN Thrown ELSE readJsonIfPresent(SummaryAsset(manifest))

ForecastAsset(manifest) == resolvePublicAsset(Get(Get(manifest, "artifacts"), "forecast_json"))
loadForecast(manifest) ==
  IF ForecastAsset(manifest).k = "throw" THEN Thrown ELSE readJsonIfPresent(ForecastAsset(manifest))

\* loadManifest returning the file as parsed, without withArtifactDefaults
loadManifestRaw(region) ==
  readJsonIfPresent(RegionFile(region, "manifest.json"))

loadManifest(region) ==
  withArtifactDefaults(region, readJsonIfPresent(RegionFile(region, "manifest.json")))

\* loadRegionBundle past its cache check, were all its reads to see the files
\* as they are now: the bundle, or Thrown when the call rejects
ResolveNow(region) ==
  LET summaryData == readJsonIfPresent(RegionFile(region, "summary.json"))
      timeseriesData == readJsonIfPresent(RegionFile(region, "timeseries.json"))
      payload == readJsonIfPresent(RegionFile(region, "bundle.json"))
      manifest == loadManifest(region)
  IN IF Truthy(summaryData) THEN StructuredBundle(region, summaryData, timeseriesData)
     ELSE IF Truthy(payload) THEN LegacyBundle(region, payload)
     ELSE IF loadForecast(manifest).k = "throw" \/ loadSummary(manifest).k = "throw" THEN Thrown
     ELSE DiscreteBundle(region, manifest, loadForecast(manifest), loadSummary(manifest),
                         loadAvalanches(region), loadWeatherStations(region))

\* a bundle without the time stamp of its manifest
Undated(b) ==
  IF b.k = "obj"
    THEN SetKey(b, "manifest", SetKey(Get(b, "manifest"), "run_time_utc", Null))
    ELSE b

\* the reference a call holds before it has returned
NoRef == 0

NoData == [summaryData |-> Undef, manifest |-> Undef]

\* the calls that have returned or rejected
Settled == {i \in 1..Len(calls) : calls[i].pc \in {"done", "rejected"}}

\* a call that has run up to its first await.  Beside the call's own state the
\* record keeps what the properties need of its history: the files it read
\* (reads, nreads), whether it returned from the cache (hit) and whether the
\* bundle it then returned differed from what the files held (stale), the
\* calls that had settled when it started (after), and whether a file changed
\* while it was running (dirty).
NewCall(param, pc, result) ==
  [param |-> param, region |-> ToLowerCase(param), pc |-> pc,
   reads |-> {}, nreads |-> 0, hit |-> result # NoRef,
   after |-> Settled, dirty |-> FALSE,
   stale |-> result # NoRef /\ Undated(heap[result]) # Undated(ResolveNow(ToLowerCase(param))),
   d |-> NoData, result |-> result]

Running(c) == c \in 1..Len(calls) /\ calls[c].pc \notin {"done", "rejected"}
InFlight == {c \in 1..Len(calls) : Running(c)}

\* the call has read the file at absPath
DidRead(call, absPath) ==
  IF absPath.k = "path"
    THEN [call EXCEPT !.reads = @ \cup {absPath.v}, !.nreads = @ + 1]
    ELSE call

\* shouldCache && bundleCache.has(region)
CacheHit(region) == shouldCache /\ region \in DOMAIN bundleCache

\* a cache that holds one entry: setting a key drops the others
CacheSetEvicting(region, ref) ==
  IF shouldCache THEN [key \in {region} |-> ref] ELSE bundleCache

\* bundleCache.set whatever the mode
CacheSetAlways(region, ref) ==
  [key \in DOMAIN bundleCache \cup {region} |->
     IF key = region THEN ref ELSE bundleCache[key]]

\* bundleCache.set only for a key the cache does not hold yet
CacheSetOnce(region, ref) ==
  IF shouldCache /\ region \notin DOMAIN bundleCache
    THEN [key \in DOMAIN bundleCache \cup {region} |->
            IF key = region THEN ref ELSE bundleCache[key]]
    ELSE bundleCache

\* if (shouldCache) bundleCache.set(region, bundle)
CacheSet(region, ref) ==
  IF shouldCache
    THEN [key \in DOMAIN bundleCache \cup {region} |->
            IF key = region THEN ref ELSE bundleCache[key]]
    ELSE bundleCache

\* a return that joins the load which already filled the cache: the call
\* hands out the cached object and stores nothing
ReturnCoalesced(c, call, b) ==
  IF CacheHit(call.region)
    THEN /\ calls' = [calls EXCEPT ![c] =
                        [call EXCEPT !.pc = "done", !.d = NoData,
                                     !.result = bundleCache[call.region]]]
         /\ UNCHANGED <<bundleCache, heap>>
    ELSE /\ calls' = [calls EXCEPT ![c] =
                        [call EXCEPT !.pc = "done", !.d = NoData, !.result = Len(heap) + 1]]
         /\ bundleCache' = CacheSet(call.region, Len(heap) + 1)
         /\ heap' = Append(heap, b)

\* the call c, in state call, returns the freshly built bundle b
Return(c, call, b) ==
  /\ calls' = [calls EXCEPT ![c] =
                 [call EXCEPT !.pc = "done", !.d = NoData, !.result = Len(heap) + 1]]
  /\ bundleCache' = CacheSet(call.region, Len(heap) + 1)
  /\ heap' = Append(heap, b)

Keep(c, call) ==
  /\ calls' = [calls EXCEPT ![c] = call]
  /\ UNCHANGED <<bundleCache, heap>>

\* loadRegionBundle(regionParam) up to its first await
Start(param) ==
  /\ callLimit > 0
  /\ Cardinality(InFlight) < MaxInFlight
  /\ callLimit' = callLimit - 1
  /\ LET region == ToLowerCase(param)
     IN IF CacheHit(region)
          THEN calls' = Append(calls, NewCall(param, "done", bundleCache[region]))
          ELSE calls' = Append(calls, NewCall(param, "summary", NoRef))
  /\ UNCHANGED <<fs, shouldCache, bundleCache, clock, heap, writeLimit, regionLists, pageVars>>

\* loadStructuredBundle giving up whatever summary.json holds
ReadSummarySkipped(c) ==
  /\ Running(c) /\ calls[c].pc = "summary"
  /\ Keep(c, [DidRead(calls[c], RegionFile(calls[c].region, "summary.json"))
                EXCEPT !.pc = "bundle"])
  /\ UNCHANGED <<fs, shouldCache, clock, callLimit, writeLimit, regionLists, pageVars>>

\* loadStructuredBundle probing bundle.json along with summary.json
ReadSummaryEager(c) ==
  /\ Running(c) /\ calls[c].pc = "summary"
  /\ LET abs == RegionFile(calls[c].region, "summary.json")
         summaryData == readJsonIfPresent(abs)
         call == DidRead(DidRead(calls[c], abs), RegionFile(calls[c].region, "bundle.json"))
     IN IF ~Truthy(summaryData)
          THEN Keep(c, [call EXCEPT !.pc = "bundle"])
          ELSE Keep(c, [call EXCEPT !.pc = "timeseries", !.d.summaryData = summaryData])
  /\ UNCHANGED <<fs, shouldCache, clock, callLimit, writeLimit, regionLists, pageVars>>

\* loadStructuredBundle: summary.json has been read
ReadSummary(c) ==
  /\ Running(c) /\ calls[c].pc = "summary"
  /\ LET abs == RegionFile(calls[c].region, "summary.json")
         summaryData == readJsonIfPresent(abs)
         call == DidRead(calls[c], abs)
     IN IF ~Truthy(summaryData)
          THEN Keep(c, [call EXCEPT !.pc = "bundle"])
          ELSE Keep(c, [call EXCEPT !.pc = "timeseries", !.d.summaryData = summaryData])
  /\ UNCHANGED <<fs, shouldCache, clock, callLimit, writeLimit, regionLists, pageVars>>

\* loadStructuredBundle returning null when timeseries.json gives nothing
ReadTimeseriesRequired(c) ==
  /\ Running(c) /\ calls[c].pc = "timeseries"
  /\ LET abs == RegionFile(calls[c].region, "timeseries.json")
         timeseriesData == readJsonIfPresent(abs)
         call == DidRead(calls[c], abs)
     IN IF ~Truthy(timeseriesData)
          THEN Keep(c, [call EXCEPT !.pc = "bundle", !.d = NoData])
          ELSE Return(c, call, StructuredBundle(call.region, call.d.summaryData, timeseriesData))
  /\ UNCHANGED <<fs, shouldCache, clock, callLimit, writeLimit, regionLists, pageVars>>

\* loadStructuredBundle: timeseries.json has been read; the bundle is returned
ReadTimeseries(c) ==
  /\ Running(c) /\ calls[c].pc = "timeseries"
  /\ LET abs == RegionFile(calls[c].region, "timeseries.json")
         timeseriesData == readJsonIfPresent(abs)
         call == DidRead(calls[c], abs)
     IN Return(c, call, StructuredBundle(call.region, call.d.summaryData, timeseriesData))
  /\ UNCHANGED <<fs, shouldCache, clock, callLimit, writeLimit, regionLists, pageVars>>

\* loadBundleJson without its `if (!payload) return null`
ReadBundleUnguarded(c) ==
  /\ Running(c) /\ calls[c].pc = "bundle"
  /\ LET abs == RegionFile(calls[c].region, "bundle.json")
         call == DidRead(calls[c], abs)
     IN Return(c, call, LegacyBundle(call.region, readJsonIfPresent(abs)))
  /\ UNCHANGED <<fs, shouldCache, clock, callLimit, writeLimit, regionLists, pageVars>>

\* loadBundleJson: bundle.json has been read
ReadBundle(c) ==
  /\ Running(c) /\ calls[c].pc = "bundle"
  /\ LET abs == RegionFile(calls[c].region, "bundle.json")
         payload == readJsonIfPresent(abs)
         call == DidRead(calls[c], abs)
     IN IF Truthy(payload)
          THEN Return(c, call, LegacyBundle(call.region, payload))
          ELSE Keep(c, [call EXCEPT !.pc = "manifest"])
  /\ UNCHANGED <<fs, shouldCache, clock, callLimit, writeLimit, regionLists, pageVars>>

\* the files the four parallel loaders read
ArtifactReads(region, manifest) ==
  <<ForecastAsset(manifest), SummaryAsset(manifest),
    SharedFile("avalanches.json"), RegionFile(region, "avalanches.json"),
    SharedFile("weather_station.csv")>>
  \o (IF StationsFrom(region, SharedFile("weather_station.csv")).k = "undef"
        THEN <<RegionFile(region, "weather_station.csv")>>
        ELSE <<>>)

RECURSIVE DidReadAll(_, _)
DidReadAll(call, paths) ==
  IF paths = <<>> THEN call ELSE DidReadAll(DidRead(call, paths[1]), Tail(paths))

\* loadManifest: manifest.json has been read; Promise.all starts the loaders
ReadManifest(c) ==
  /\ Running(c) /\ calls[c].pc = "manifest"
  /\ LET call == DidRead(calls[c], RegionFile(calls[c].region, "manifest.json"))
     IN Keep(c, [call EXCEPT !.pc = "artifacts", !.d.manifest = loadManifest(call.region)])
  /\ UNCHANGED <<fs, shouldCache, clock, callLimit, writeLimit, regionLists, pageVars>>

\* Promise.all([loadForecast, loadSummary, loadAvalanches, loadWeatherStations])
\* has settled: the call rejects when a loader threw, and otherwise builds,
\* caches and returns the bundle
LoadArtifacts(c) ==
  /\ Running(c) /\ calls[c].pc = "artifacts"
  /\ LET region == calls[c].region
         manifest == calls[c].d.manifest
         forecast == loadForecast(manifest)
         summary == loadSummary(manifest)
         call == DidReadAll(calls[c], ArtifactReads(region, manifest))
     IN IF forecast.k = "throw" \/ summary.k = "throw"
          THEN Keep(c, [call EXCEPT !.pc = "rejected", !.d = NoData])
          ELSE Return(c, call,
                 DiscreteBundle(region, manifest, forecast, summary,
                                loadAvalanches(region), loadWeatherStations(region)))
  /\ UNCHANGED <<fs, shouldCache, clock, callLimit, writeLimit, regionLists, pageVars>>

\* the publishing pipeline replaces, creates or removes a data file
WriteFile(slot, text) ==
  /\ writeLimit > 0
  /\ text # fs[slot]
  /\ fs' = [fs EXCEPT ![slot] = text]
  /\ writeLimit' = writeLimit - 1
  /\ calls' = [c \in 1..Len(calls) |->
                 IF Running(c) THEN [calls[c] EXCEPT !.dirty = TRUE] ELSE calls[c]]
  /\ UNCHANGED <<shouldCache, bundleCache, clock, heap, callLimit, regionLists, pageVars>>

\* time passes
Tick ==
  /\ clock < MaxClock
  /\ clock' = clock + 1
  /\ UNCHANGED <<fs, shouldCache, bundleCache, calls, heap, callLimit, writeLimit, regionLists, pageVars>>

Step(c) ==
  \/ ReadSummary(c)
  \/ ReadTimeseries(c)
  \/ ReadBundle(c)
  \/ ReadManifest(c)
  \/ LoadArtifacts(c)

\* no account, no request answered, no page rendered, no component mounted
NotRendered == [raw |-> Undef, callbackUrl |-> Undef]
Unmounted ==
  [manifest |-> FALSE, discovery |-> "idle", vars |-> {}, levels |-> {},
   varCode |-> "", levelCode |-> "", metric |-> "mean_value",
   deps |-> <<FALSE, "", "", "mean_value">>,
   rows |-> <<>>, cols |-> <<>>, loading |-> FALSE, err |-> "", note |-> "",
   latestQuery |-> 0, queries |-> <<>>, finished |-> <<>>]
PagesIdle ==
  /\ users = [email \in {} |-> Null]
  /\ authLog = <<>>
  /\ callback = NotRendered
  /\ component = Unmounted

Init ==
  /\ fs \in Deployments
  /\ shouldCache \in BOOLEAN
  /\ bundleCache = [key \in {} |-> NoRef]
  /\ calls = <<>>
  /\ clock = 0
  /\ heap = <<>>
  /\ callLimit = MaxCalls
  /\ writeLimit = MaxWrites
  /\ regionLists = <<>>
  /\ PagesIdle

Next ==
  \/ \E param \in Params : Start(param)
  \/ \E c \in 1..MaxCalls : Step(c)
  \/ \E w \in Publications : WriteFile(w[1], w[2])
  \/ Tick

Spec == Init /\ [][Next]_vars

\* one resolution of South_Rockies by a fresh production process, over every
\* combination of the data files
InitLoad ==
  /\ fs \in FileSystems
  /\ shouldCache = TRUE
  /\ bundleCache = [key \in {} |-> NoRef]
  /\ calls = <<>>
  /\ clock = 0
  /\ heap = <<>>
  /\ callLimit = 1
  /\ writeLimit = 0
  /\ regionLists = <<>>
  /\ PagesIdle

NextLoad ==
  \/ Start(TagUnderscore)
  \/ Step(1)

SpecLoad == InitLoad /\ [][NextLoad]_vars

\* one resolution by a fresh production process of a region parameter that is
\* a region name or a relative path, over manifests whose artifact locations
\* are relative paths, http URLs or paths with parent-directory segments
TagParent == <<"..", "/", "..", "/", "etc">>                 \* ../../etc
AssetParams == {TagUnderscore, TagParent}

InitAssets ==
  /\ fs \in {MkFs(a, "absent", "absent", d, e, "absent", "absent", "absent", "absent") :
               a \in {"absent", "bad", "Summary1"},
               d \in {"absent", "Manifest1", "Manifest3"},
               e \in ForecastFiles}
  /\ shouldCache = TRUE
  /\ bundleCache = [key \in {} |-> NoRef]
  /\ calls = <<>>
  /\ clock = 0
  /\ heap = <<>>
  /\ callLimit = 1
  /\ writeLimit = 0
  /\ regionLists = <<>>
  /\ PagesIdle

NextAssets ==
  \/ \E param \in AssetParams : Start(param)
  \/ Step(1)

SpecAssets == InitAssets /\ [][NextAssets]_vars

\* ------------------------------------------------------------------------
\* listRegions
\* ------------------------------------------------------------------------
\* fs.readdir(dir, { withFileTypes: true }): the entries, or Thrown
Readdir(dir) ==
  IF SlotOf(dir) \in DOMAIN fs /\ TextOf(fs[SlotOf(dir)]).k = "dir"
    THEN Arr(TextOf(fs[SlotOf(dir)]).v)
    ELSE Thrown

\* entries.filter(dirent.isDirectory() && dirent.name !== 'shared').map(name)
RECURSIVE RegionDirs(_)
RegionDirs(entries) ==
  IF entries = <<>> THEN <<>>
  ELSE (IF entries[1].isDirectory /\ entries[1].name # <<"shared">>
          THEN <<Str(entries[1].name)>>
          ELSE <<>>) \o RegionDirs(Tail(entries))

\* listRegions() up to its first await
ListStart ==
  /\ callLimit > 0
  /\ callLimit' = callLimit - 1
  /\ regionLists' = Append(regionLists, [pc |-> "regions", result |-> Undef])
  /\ UNCHANGED <<fs, shouldCache, bundleCache, calls, clock, heap, writeLimit, pageVars>>

\* shared/regions.json has been read: if (sharedList?.length) return sharedList
ListReadRegions(i) ==
  /\ i \in 1..Len(regionLists) /\ regionLists[i].pc = "regions"
  /\ LET sharedList == readJsonIfPresent(SharedFile("regions.json"))
     IN regionLists' =
          [regionLists EXCEPT ![i] =
             IF Truthy(LengthOf(sharedList))
               THEN [pc |-> "done", result |-> sharedList]
               ELSE [pc |-> "readdir", result |-> Undef]]
  /\ UNCHANGED <<fs, shouldCache, bundleCache, calls, clock, heap, callLimit, writeLimit, pageVars>>

\* fs.readdir(DATA_ROOT) has settled: the directory names, or [] when it threw
ListReadDir(i) ==
  /\ i \in 1..Len(regionLists) /\ regionLists[i].pc = "readdir"
  /\ regionLists' =
       [regionLists EXCEPT ![i] =
          [pc |-> "done",
           result |-> IF Readdir(DATA_ROOT).k = "throw"
                        THEN EmptyArr
                        ELSE Arr(RegionDirs(Readdir(DATA_ROOT).v))]]
  /\ UNCHANGED <<fs, shouldCache, bundleCache, calls, clock, heap, callLimit, writeLimit, pageVars>>

\* one call of listRegions over every shared list and every data root
InitList ==
  /\ fs \in {[slot \in {"shared/regions.json", "."} |->
                IF slot = "." THEN root ELSE list] :
               list \in RegionsFiles, root \in DataRoots}
  /\ shouldCache = TRUE
  /\ bundleCache = [key \in {} |-> NoRef]
  /\ calls = <<>>
  /\ clock = 0
  /\ heap = <<>>
  /\ callLimit = 1
  /\ writeLimit = 0
  /\ regionLists = <<>>
  /\ PagesIdle

NextList ==
  \/ ListStart
  \/ ListReadRegions(1)
  \/ ListReadDir(1)

SpecList == InitList /\ [][NextList]_vars

\* the files no loader requires: every file but bundle.json, summary.json
\* being where the summary artifact is by default
OptionalSlots == Slots \ {"bundle.json"}

\* the publisher removes an unparseable file once the resolution has settled
RemoveUnparseable(slot) ==
  /\ calls # <<>> /\ InFlight = {}
  /\ fs[slot] = "bad"
  /\ WriteFile(slot, "absent")

\* one resolution of South_Rockies over every combination of the data
\* files, after which unparseable files are removed
InitRepair ==
  /\ fs \in FileSystems
  /\ shouldCache = FALSE
  /\ bundleCache = [key \in {} |-> NoRef]
  /\ calls = <<>>
  /\ clock = 0
  /\ heap = <<>>
  /\ callLimit = 1
  /\ writeLimit = MaxWrites
  /\ regionLists = <<>>
  /\ PagesIdle

NextRepair ==
  \/ Start(TagUnderscore)
  \/ Step(1)
  \/ \E slot \in OptionalSlots : RemoveUnparseable(slot)

SpecRepair == InitRepair /\ [][NextRepair]_vars

\* ------------------------------------------------------------------------
\* Accounts: POST /api/auth/register, the credentials provider, the login page
\* ------------------------------------------------------------------------
\* s.startsWith(prefix)
StartsWith(s, prefix) == Len(prefix) <= Len(s) /\ SubSeq(s, 1, Len(prefix)) = prefix

\* email addresses and passwords; a password is spelled character by character
Ann == <<"ann", "@", "slope", ".", "io">>
Bob == <<"bob", "@", "slope", ".", "io">>
NotAnEmail == <<"ann", ".", "io">>
Pw1 == <<"p", "o", "w", "d", "e", "r", "2", "4">>
Pw2 == <<"p", "o", "w", "d", "e", "r", "2", "5">>
PwShort == <<"s", "n", "o", "w">>

\* z.string().email()
IsEmail(x) ==
  /\ x.k = "str"
  /\ \E i \in 2..Len(x.v) : \E j \in (i + 2)..(Len(x.v) - 1) : x.v[i] = "@" /\ x.v[j] = "."

\* z.string().min(lo).max(hi)
IsStringOf(x, lo, hi) == x.k = "str" /\ Len(x.v) >= lo /\ Len(x.v) <= hi

\* RegisterSchema.safeParse(body).success
RegisterSchema(body) ==
  /\ body.k = "obj"
  /\ IsEmail(Get(body, "email"))
  /\ IsStringOf(Get(body, "password"), 8, 128)
  /\ Get(body, "name").k = "undef" \/ IsStringOf(Get(body, "name"), 1, 100)

\* CredentialsSchema.safeParse(raw).success
CredentialsSchema(raw) ==
  /\ raw.k = "obj"
  /\ IsEmail(Get(raw, "email"))
  /\ IsStringOf(Get(raw, "password"), 8, 128)

\* argon2.hash(password, { type: argon2.argon2id }): the encoded hash, a
\* string that names its scheme and then holds the digest of the password
Argon2Hash(password) == Str(<<"$argon2id$">> \o password.v)

\* bcrypt.compare(password, hash) of bcryptjs: false for a string that is
\* not a bcrypt hash, else whether the hash is that of the password
BcryptCompare(password, hash) ==
  /\ hash.k = "str" /\ Len(hash.v) > 0
  /\ hash.v[1] \in {"$2a$", "$2b$"}
  /\ Tail(hash.v) = password.v

\* prisma.user.findUnique({ where: { email } })
FindUnique(email) == IF email.v \in DOMAIN users THEN users[email.v] ELSE Null

\* the request bodies and the credentials the clients send
Body(email, password, name) ==
  Obj(<<E("email", Str(email)), E("password", Str(password))>>
      \o (IF name = <<>> THEN <<>> ELSE <<E("name", Str(name))>>))
RegisterBodies ==
  {Null, Body(Ann, Pw1, <<"Ann">>), Body(Ann, Pw1, <<>>), Body(Ann, Pw2, <<>>),
   Body(Ann, PwShort, <<>>), Body(Bob, Pw1, <<>>), Body(NotAnEmail, Pw1, <<>>)}
Credentials ==
  {Body(Ann, Pw1, <<>>), Body(Ann, Pw2, <<>>), Body(Ann, PwShort, <<>>),
   Body(Bob, Pw1, <<>>), Body(NotAnEmail, Pw1, <<>>)}
GoogleAccounts == {Ann, Bob}

MaxAuthOps == 3

Answered(op, body, status, user) ==
  authLog' = Append(authLog, [op |-> op, email |-> Get(body, "email"),
                              password |-> Get(body, "password"),
                              status |-> status, user |-> user])

\* the row prisma.user.create / update writes
UserRow(id, name, passwordHash) ==
  Obj(<<E("id", Num(id)), E("name", name), E("passwordHash", passwordHash),
        E("image", Null)>>)

\* POST /api/auth/register (EMAIL_SERVER unset: no verification mail)
Register(body) ==
  /\ Len(authLog) < MaxAuthOps
  /\ LET email == Get(body, "email")
         password == Get(body, "password")
         name == Get(body, "name")
         existing == FindUnique(email)
     IN IF ~RegisterSchema(body)
          THEN Answered("register", body, 400, Null) /\ UNCHANGED users
        ELSE IF Truthy(Get(existing, "passwordHash"))
          THEN Answered("register", body, 409, Null) /\ UNCHANGED users
        ELSE /\ Answered("register", body, 200, Null)
             /\ users' =
                  [e \in DOMAIN users \cup {email.v} |->
                     IF e # email.v THEN users[e]
                     ELSE IF existing = Null
                       THEN UserRow(Cardinality(DOMAIN users) + 1,
                                    Coalesce(name, Null), Argon2Hash(password))
                       ELSE UserRow(Get(existing, "id").v,
                                    Coalesce(Get(existing, "name"), Coalesce(name, Null)),
                                    Argon2Hash(password))]
  /\ UNCHANGED <<serverVars, callback, component>>

\* a first sign-in with Google: the Prisma adapter creates a user that has no
\* password
GoogleSignIn(email) ==
  /\ Len(authLog) < MaxAuthOps
  /\ email \notin DOMAIN users
  /\ users' = [e \in DOMAIN users \cup {email} |->
                 IF e # email THEN users[e]
                 ELSE UserRow(Cardinality(DOMAIN users) + 1, Null, Null)]
  /\ Answered("google", Body(email, <<>>, <<>>), 200, Null)
  /\ UNCHANGED <<serverVars, callback, component>>

\* authorize(raw) of the credentials provider: the user, or null
authorize(raw) ==
  LET email == Get(raw, "email")
      password == Get(raw, "password")
      user == FindUnique(email)
  IN IF ~CredentialsSchema(raw) THEN Null
     ELSE IF ~Truthy(Get(user, "passwordHash")) THEN Null
     ELSE IF ~BcryptCompare(password, Get(user, "passwordHash")) THEN Null
     ELSE Obj(<<E("id", Get(user, "id")), E("email", email),
                E("name", Get(user, "name")), E("image", Get(user, "image"))>>)

Authorize(raw) ==
  /\ Len(authLog) < MaxAuthOps
  /\ Answered("authorize", raw, 200, authorize(raw))
  /\ UNCHANGED <<serverVars, users, callback, component>>

\* sanitizeCallback(raw) of app/login/page.tsx
DefaultCallback == Str(<<"/", "r", "/", "south_rockies">>)
sanitizeCallback(raw) ==
  IF ~Truthy(raw) \/ ~StartsWith(raw.v, <<"/">>) THEN DefaultCallback
  ELSE IF \/ StartsWith(raw.v, <<"/", "_next">>)
          \/ StartsWith(raw.v, <<"/", "api", "/">>)
          \/ EndsWith(raw.v, <<".svg">>)
    THEN DefaultCallback
  ELSE raw

\* the values of searchParams.callbackUrl
CallbackParams ==
  {Undef, Str(<<>>),
   Str(<<"r", "/", "whistler">>),
   Str(<<"https:", "/", "/", "evil.example", "/", "r">>),
   Str(<<"/", "r", "/", "whistler">>),
   Str(<<"/", "/", "evil.example", "/", "r">>),
   Str(<<"/", "_next", "/", "static">>),
   Str(<<"/", "api", "/", "regions">>),
   Str(<<"/", "api">>),
   Str(<<"/", "images", "/", "logo", ".svg">>)}

\* LoginPage({ searchParams }) renders LoginClient with the sanitized URL
LoginPage(raw) ==
  /\ callback' = [raw |-> raw, callbackUrl |-> sanitizeCallback(raw)]
  /\ UNCHANGED <<serverVars, users, authLog, component>>

\* the region loader at rest
ServerIdle ==
  /\ fs = NoFiles
  /\ shouldCache = TRUE
  /\ bundleCache = [key \in {} |-> NoRef]
  /\ calls = <<>>
  /\ clock = 0
  /\ heap = <<>>
  /\ callLimit = 0
  /\ writeLimit = 0
  /\ regionLists = <<>>

InitLogin == ServerIdle /\ PagesIdle

NextLogin ==
  \/ \E raw \in CallbackParams : LoginPage(raw)
  \/ \E body \in RegisterBodies : Register(body)
  \/ \E email \in GoogleAccounts : GoogleSignIn(email)
  \/ \E raw \in Credentials : Authorize(raw)

SpecLogin == InitLogin /\ [][NextLogin]_vars

\* ------------------------------------------------------------------------
\* ModelParquetTable: its three effects and its selectors
\* ------------------------------------------------------------------------
\* what the parquet file holds for the region, and the manifest's metrics
VarCodes == {"TMP", "WIND"}
LevelCodes == {"Sfc", "AGL_10m"}
ValueColumns == {"mean_value", "max_value"}

MaxQueries == 3

\* the dependencies of the row query effect
Selection == <<component.manifest, component.varCode, component.levelCode, component.metric>>

\* effect 1 has loaded the manifest; the render that follows starts effect 2
ManifestLoaded ==
  /\ component.discovery = "idle"
  /\ component' = [component EXCEPT !.manifest = TRUE, !.metric = "mean_value",
                                    !.discovery = "running",
                                    !.loading = TRUE, !.err = "", !.note = ""]
  /\ UNCHANGED <<serverVars, users, authLog, callback>>

\* effect 1 failed: loadModelManifest threw
ManifestFailed ==
  /\ component.discovery = "idle"
  /\ component' = [component EXCEPT !.discovery = "failed", !.err = "manifest"]
  /\ UNCHANGED <<serverVars, users, authLog, callback>>

\* effect 2 has listed the variables and levels of the region and chosen the
\* defaults; found says whether the file holds rows for the region
DiscoverDone(found) ==
  /\ component.discovery = "running"
  /\ component' = [component EXCEPT
                     !.vars = IF found THEN VarCodes ELSE {},
                     !.levels = IF found THEN LevelCodes ELSE {},
                     !.varCode = IF found THEN "TMP" ELSE "",
                     !.levelCode = IF found THEN "Sfc" ELSE "",
                     !.discovery = "closing"]
  /\ UNCHANGED <<serverVars, users, authLog, callback>>

\* effect 2: conn.close() has settled and finally runs
DiscoverClose ==
  /\ component.discovery = "closing"
  /\ component' = [component EXCEPT !.discovery = "done", !.loading = FALSE]
  /\ UNCHANGED <<serverVars, users, authLog, callback>>

\* effect 2 threw: catch, then finally
DiscoverFailed ==
  /\ component.discovery \in {"running", "closing"}
  /\ component' = [component EXCEPT !.discovery = "done", !.err = "discovery",
                                    !.loading = FALSE]
  /\ UNCHANGED <<serverVars, users, authLog, callback>>

\* onChange of a selector: an option other than the one shown is chosen
SelectVar(v) ==
  /\ component.latestQuery < MaxQueries
  /\ v \in component.vars /\ v # component.varCode
  /\ component' = [component EXCEPT !.varCode = v]
  /\ UNCHANGED <<serverVars, users, authLog, callback>>

SelectLevel(l) ==
  /\ component.latestQuery < MaxQueries
  /\ l \in component.levels /\ l # component.levelCode
  /\ component' = [component EXCEPT !.levelCode = l]
  /\ UNCHANGED <<serverVars, users, authLog, callback>>

SelectMetric(m) ==
  /\ component.latestQuery < MaxQueries
  /\ component.manifest /\ m # component.metric
  /\ component' = [component EXCEPT !.metric = m]
  /\ UNCHANGED <<serverVars, users, authLog, callback>>

\* effect 3 up to its first await, run by the render that follows a change
\* of its dependencies
QueryEffect ==
  /\ component.deps # Selection
  /\ component.latestQuery < MaxQueries
  /\ IF ~component.manifest \/ component.varCode = "" \/ component.levelCode = ""
       THEN component' = [component EXCEPT !.deps = Selection]
       ELSE component' =
              [component EXCEPT
                 !.deps = Selection,
                 !.loading = TRUE, !.err = "", !.note = "",
                 !.latestQuery = @ + 1,
                 !.queries = Append(@, [varCode |-> component.varCode,
                                        levelCode |-> component.levelCode,
                                        metric |-> component.metric,
                                        pc |-> "running"])]
  /\ UNCHANGED <<serverVars, users, authLog, callback>>

\* the rows a query returns: those of its selection, or none
TableOf(query, found) ==
  IF found
    THEN <<[varCode |-> query.varCode, levelCode |-> query.levelCode, metric |-> query.metric]>>
    ELSE <<>>

\* effect 3 writing the table of query qid whether or not it is the latest
QueryResultUnguarded(qid, found) ==
  /\ qid \in 1..Len(component.queries) /\ component.queries[qid].pc = "running"
  /\ component' = [component EXCEPT
                     !.queries[qid].pc = "closing",
                     !.finished = Append(@, qid),
                     !.rows = TableOf(component.queries[qid], found),
                     !.cols = <<"time", "value">>,
                     !.note = IF found THEN @ ELSE "no rows"]
  /\ UNCHANGED <<serverVars, users, authLog, callback>>

\* effect 3: res.toArray() of query qid has settled
QueryResult(qid, found) ==
  /\ qid \in 1..Len(component.queries) /\ component.queries[qid].pc = "running"
  /\ IF qid = component.latestQuery
       THEN component' = [component EXCEPT
                            !.queries[qid].pc = "closing",
                            !.finished = Append(@, qid),
                            !.rows = TableOf(component.queries[qid], found),
                            !.cols = <<"time", "value">>,
                            !.note = IF found THEN @ ELSE "no rows"]
       ELSE component' = [component EXCEPT !.queries[qid].pc = "closing",
                                           !.finished = Append(@, qid)]
  /\ UNCHANGED <<serverVars, users, authLog, callback>>

\* effect 3: conn.close() of query qid has settled and finally runs
QueryClose(qid) ==
  /\ qid \in 1..Len(component.queries) /\ component.queries[qid].pc = "closing"
  /\ IF qid = component.latestQuery
       THEN component' = [component EXCEPT !.queries[qid].pc = "done", !.loading = FALSE]
       ELSE component' = [component EXCEPT !.queries[qid].pc = "done"]
  /\ UNCHANGED <<serverVars, users, authLog, callback>>

\* effect 3: an await of query qid threw: catch, then finally
QueryFailed(qid) ==
  /\ qid \in 1..Len(component.queries)
  /\ component.queries[qid].pc \in {"running", "closing"}
  /\ IF qid = component.latestQuery
       THEN component' = [component EXCEPT !.queries[qid].pc = "failed",
                                           !.err = "query", !.loading = FALSE]
       ELSE component' = [component EXCEPT !.queries[qid].pc = "failed"]
  /\ UNCHANGED <<serverVars, users, authLog, callback>>

InitTable == ServerIdle /\ PagesIdle

NextTable ==
  \/ ManifestLoaded
  \/ ManifestFailed
  \/ \E found \in BOOLEAN : DiscoverDone(found)
  \/ DiscoverClose
  \/ DiscoverFailed
  \/ \E v \in VarCodes : SelectVar(v)
  \/ \E l \in LevelCodes : SelectLevel(l)
  \/ \E m \in ValueColumns : SelectMetric(m)
  \/ QueryEffect
  \/ \E qid \in 1..MaxQueries : \E found \in BOOLEAN : QueryResult(qid, found)
  \/ \E qid \in 1..MaxQueries : QueryClose(qid)
  \/ \E qid \in 1..MaxQueries : QueryFailed(qid)

SpecTable == InitTable /\ [][NextTable]_vars

\* ------------------------------------------------------------------------
\* Properties
\* ------------------------------------------------------------------------
\* the calls that returned a bundle, and the bundle each returned
Done == {c \in 1..Len(calls) : calls[c].pc = "done"}
BundleOf(c) == heap[calls[c].result]

BandMapKeys == {"stationSummary", "stationTimeseries", "modelSummary", "modelTimeseries"}
BandKeys == {BANDS[i] : i \in 1..Len(BANDS)}

\* a band-keyed map with nothing in it
EmptyBands ==
  Obj(<<E("above_treeline", EmptyArr), E("treeline", EmptyArr), E("below_treeline", EmptyArr)>>)

\* where call c looks for summary.json
SummaryPathOf(c) == RegionFile(calls[c].region, "summary.json").v

\* the file a slot holds, as parsed
ParsedAt(slot) == TextOf(fs[slot])

\* C1: whatever the data files hold (present, absent or malformed), each of
\* the four band-keyed maps of the returned bundle has the keys
\* above_treeline, treeline and below_treeline, each mapped to a list; the
\* list is empty when the structured source holds no list for that band.
BandKeysAlwaysLists ==
  \A c \in Done :
    /\ \A m \in BandMapKeys : \A band \in BandKeys :
         /\ HasKey(Get(BundleOf(c), m), band)
         /\ IsArray(Get(Get(BundleOf(c), m), band))
    /\ ParsedAt("summary.json").k = "json" =>
         \A band \in BandKeys :
           \/ IsArray(Get(Get(ParsedAt("summary.json").v, "stations"), band))
           \/ Get(Get(BundleOf(c), "stationSummary"), band) = EmptyArr

\* C1 witness: a bundle built from a summary.json whose stations map holds a
\* table for above_treeline, a non-list for treeline and nothing for
\* below_treeline
BandKeysWitness ==
  \E c \in Done :
    /\ fs["summary.json"] = "Summary1"
    /\ Len(Get(Get(BundleOf(c), "stationSummary"), "above_treeline").v) = 1
    /\ Get(Get(BundleOf(c), "stationSummary"), "treeline") = EmptyArr
    /\ Get(Get(BundleOf(c), "stationSummary"), "below_treeline") = EmptyArr

\* C2: loadRegionBundle never rejects because of the state of the data
\* files: whatever they hold, the call resolves to a bundle.
NeverRejects ==
  \A c \in 1..Len(calls) : calls[c].pc # "rejected"

\* C3: when summary.json and bundle.json both parse, the bundle returned is
\* the structured loader's, built from summary.json and timeseries.json; it
\* is not the legacy loader's, and bundle.json is not read.
StructuredBeatsLegacy ==
  \A c \in Done :
    (ParsedAt("summary.json").k = "json" /\ ParsedAt("bundle.json").k = "json") =>
      /\ BundleOf(c) =
           StructuredBundle(calls[c].region, ParsedAt("summary.json").v,
                            readJsonIfPresent(AbsPath(TimeseriesPath)))
      /\ BundleOf(c) # LegacyBundle(calls[c].region, ParsedAt("bundle.json").v)
      /\ Get(Get(Get(BundleOf(c), "manifest"), "artifacts"), "summary_json")
           = DataUrl(calls[c].region, "summary.json")
      /\ BundlePath \notin calls[c].reads

\* C3 witness: a resolution that returned with both files holding data
StructuredBeatsLegacyWitness ==
  \E c \in Done :
    /\ fs["summary.json"] = "Summary1"
    /\ fs["bundle.json"] = "Bundle1"
    /\ Get(BundleOf(c), "forecast") = Forecast1
    /\ calls[c].reads = {SummaryPath, TimeseriesPath}

\* C4: with no data file of any kind the call returns a bundle whose
\* manifest has version "v0" and the default tile URL, whose forecast is
\* null, whose avalanche list is empty and whose four band-keyed maps hold
\* only empty lists.
NoFilesDefaults ==
  \A c \in 1..Len(calls) :
    (fs = NoFiles /\ ~Running(c)) =>
      /\ c \in Done
      /\ Get(Get(BundleOf(c), "manifest"), "version") = Str(<<"v0">>)
      /\ Get(Get(Get(BundleOf(c), "manifest"), "artifacts"), "tiles_base") = DefaultTiles
      /\ Get(BundleOf(c), "forecast") = Null
      /\ Get(BundleOf(c), "avalanches") = EmptyArr
      /\ \A m \in BandMapKeys : Get(BundleOf(c), m) = EmptyBands

\* C4 witness: a resolution that went through every loader and found no file
NoFilesWitness ==
  \E c \in Done :
    /\ fs = NoFiles
    /\ calls[c].nreads = 9
    /\ RegionalStationsPath \in calls[c].reads
    /\ Get(Get(BundleOf(c), "manifest"), "region") = Str(SouthRockies)

\* the calls made with the key of call c
SameKey(c) == {x \in 1..Len(calls) : calls[x].region = calls[c].region}

\* the calls that returned a bundle before call c started
EarlierDone(c) == {e \in calls[c].after \cap SameKey(c) : calls[e].pc = "done"}

\* the calls x and e were in flight at the same time: neither had settled
\* when the other started
Overlap(e, x) == x # e /\ e \notin calls[x].after /\ x \notin calls[e].after

\* the bundle most recently stored among those the calls of cs returned
\* (bundles are allocated in the order the calls return them)
Latest(cs) == CHOOSE r \in {calls[x].result : x \in cs} :
                \A x \in cs : calls[x].result <= r

\* C5 as stated: in production a resolution that starts after an earlier
\* resolution of the same key has completed returns the very object the
\* earlier one returned, and reads no file.
SameObjectAsEarlier ==
  shouldCache =>
    \A c \in 1..Len(calls) : \A e \in EarlierDone(c) :
      /\ calls[c].result = calls[e].result
      /\ calls[c].nreads = 0

\* C5 amended: in production a resolution that starts after an earlier
\* resolution of the same key has returned a bundle reads no file and returns
\* the object the cache holds, which is the object of the latest of the
\* earlier resolutions to have stored one; it is the earlier resolution's own
\* object whenever no other resolution of that key was in flight at the same
\* time as the earlier one.
CachedObjectReturned ==
  shouldCache =>
    \A c \in 1..Len(calls) : \A e \in EarlierDone(c) :
      /\ calls[c].hit /\ calls[c].pc = "done"
      /\ calls[c].nreads = 0
      /\ calls[c].result = Latest(EarlierDone(c))
      /\ (\A x \in SameKey(e) : ~Overlap(e, x)) => calls[c].result = calls[e].result

\* C5 witness: a resolution served from the cache after an earlier one had
\* read the files, the files having changed since, so that the object
\* returned no longer matches them
CachedObjectWitness ==
  \E c \in 1..Len(calls) : \E e \in EarlierDone(c) :
    /\ shouldCache
    /\ ~calls[e].hit /\ calls[e].nreads > 0
    /\ \A x \in SameKey(e) : ~Overlap(e, x)
    /\ calls[c].stale
    /\ calls[c].result = calls[e].result

\* C6: in development the cache is never populated or consulted and every
\* resolution reads the files; a resolution during which no file changed
\* returns what the files hold when it returns, whatever they held before.
DevAlwaysReloads ==
  /\ [](~shouldCache =>
          /\ DOMAIN bundleCache = {}
          /\ \A c \in 1..Len(calls) :
               /\ ~calls[c].hit
               /\ calls[c].pc # "summary" => SummaryPathOf(c) \in calls[c].reads)
  /\ [][~shouldCache =>
          \A c \in 1..Len(calls) :
            (Running(c) /\ calls'[c].pc = "done" /\ ~calls[c].dirty) =>
              Undated(heap'[calls'[c].result]) = Undated(ResolveNow(calls[c].region))]_vars

\* C6 witness: two development resolutions of one key, a file changed
\* between them, and the second returned a bundle with other contents
DevReloadWitness ==
  \E c \in Done : \E e \in EarlierDone(c) :
    /\ ~shouldCache
    /\ ~calls[e].dirty /\ ~calls[c].dirty
    /\ writeLimit < MaxWrites
    /\ Undated(BundleOf(c)) # Undated(BundleOf(e))
    /\ Undated(BundleOf(c)) = Undated(ResolveNow(calls[c].region))

\* the calls that returned the bundle of the discrete-artifact loader
Discrete == {c \in Done : RegionFile(calls[c].region, "manifest.json").v \in calls[c].reads}

\* the records of the shared and of the regional avalanche file of call c
SharedRecords(c) ==
  extractAvalancheArray(readJsonIfPresent(SharedFile("avalanches.json"))).v
RegionalRecords(c) ==
  extractAvalancheArray(readJsonIfPresent(RegionFile(calls[c].region, "avalanches.json"))).v

Range(seq) == {seq[i] : i \in 1..Len(seq)}

\* the region tags that name the region south_rockies
MatchingTags == {Str(TagUnderscore), Str(TagLower), Str(TagSpace), Str(TagWide)}

\* C7: a record tagged "South_Rockies", "south rockies" or "South Rockies"
\* (or with a run of spaces) matches a request for south_rockies and is in
\* the bundle's avalanche list; a record with any other tag, or with none, is
\* neither in the avalanche list nor among the weather-station rows.
RegionTagsMatch ==
  \A c \in Discrete :
    /\ \A r \in Range(SharedRecords(c)) \cup Range(RegionalRecords(c)) :
         r \in Range(Get(BundleOf(c), "avalanches").v) <=> Get(r, "region") \in MatchingTags
    /\ HasKey(Get(BundleOf(c), "stationSummary"), "legacy") =>
         \A t \in Range(Get(Get(BundleOf(c), "stationSummary"), "legacy").v) :
           \A row \in Range(Get(t, "rows").v) : Get(row, "region") \in MatchingTags

\* C7 witness: records tagged South_Rockies, south rockies and South Rockies
\* were kept; records tagged southrockies and Whistler were in the files
RegionTagsWitness ==
  \E c \in Discrete :
    /\ {Obs(1, TagUnderscore), Obs(3, TagLower), Obs(8, TagSpace)}
         \subseteq Range(Get(BundleOf(c), "avalanches").v)
    /\ {Obs(4, TagJoined), Obs(2, TagOther)} \subseteq Range(SharedRecords(c))
    /\ HasKey(Get(BundleOf(c), "stationSummary"), "legacy")

\* how many records of seq are tagged for south_rockies
CountTagged(seq) == Cardinality({i \in 1..Len(seq) : Get(seq[i], "region") \in MatchingTags})

\* C8: the avalanche list of region A has as many records as the shared file
\* and the regional file hold for A together, the shared ones first, and no
\* record of another region.
AvalancheUnion ==
  \A c \in Discrete :
    LET list == Get(BundleOf(c), "avalanches").v
        nShared == CountTagged(SharedRecords(c))
    IN /\ Len(list) = nShared + CountTagged(RegionalRecords(c))
       /\ \A i \in 1..Len(list) :
            /\ Get(list[i], "region") # Str(TagOther)
            /\ list[i] \in Range(IF i <= nShared THEN SharedRecords(c) ELSE RegionalRecords(c))

\* C8 witness: a shared file with records of south_rockies and of Whistler,
\* a regional file with one more record of south_rockies, four records kept
AvalancheUnionWitness ==
  \E c \in Discrete :
    /\ fs["shared/avalanches.json"] = "SharedAvalanches1"
    /\ fs["avalanches.json"] = "RegionalAvalanches1"
    /\ Len(Get(BundleOf(c), "avalanches").v) = 4
    /\ Obs(2, TagOther) \in Range(SharedRecords(c))

\* C9: normalising what the normalisers produced changes nothing: the band
\* maps of every bundle are fixed points of ensureBandSummary and
\* ensureBandTimeseries, and its manifest is a fixed point of
\* withArtifactDefaults for the same region, whenever it is applied.
NormalizeIdempotent ==
  \A i \in 1..Len(heap) :
    LET b == heap[i]
    IN /\ ensureBandSummary(Get(b, "stationSummary")) = Get(b, "stationSummary")
       /\ ensureBandSummary(Get(b, "modelSummary")) = Get(b, "modelSummary")
       /\ ensureBandTimeseries(Get(b, "stationTimeseries")) = Get(b, "stationTimeseries")
       /\ ensureBandTimeseries(Get(b, "modelTimeseries")) = Get(b, "modelTimeseries")
       /\ withArtifactDefaults(Get(b, "region").v, Get(b, "manifest")) = Get(b, "manifest")

\* C9 witness: a bundle whose manifest was stamped with the time of its
\* construction, held after the clock has moved on, beside a bundle whose
\* band maps hold data
NormalizeIdempotentWitness ==
  \E i, j \in 1..Len(heap) :
    /\ Get(Get(heap[i], "manifest"), "run_time_utc") = Str(<<"t0">>)
    /\ clock = 1
    /\ Len(Get(Get(heap[j], "stationSummary"), "above_treeline").v) > 0
    /\ HasKey(Get(heap[j], "stationSummary"), "alpine")

\* the artifact field the manifest file supplies, or else its default
Supplied(c, field, default) ==
  LET file == readJsonIfPresent(RegionFile(calls[c].region, "manifest.json"))
      value == Get(Get(file, "artifacts"), field)
  IN IF value.k \in {"undef", "null"} THEN default ELSE value

\* C10: in every bundle returned, by whichever loader, the manifest's
\* forecast_json, summary_json and tiles_base are neither undefined nor
\* null; where the manifest file was the source, a value it supplies is kept
\* and a missing one is the default.
ArtifactsDefined ==
  \A c \in Done :
    LET artifacts == Get(Get(BundleOf(c), "manifest"), "artifacts")
    IN /\ \A field \in {"forecast_json", "summary_json", "tiles_base"} :
            Get(artifacts, field).k \notin {"undef", "null"}
       /\ c \in Discrete =>
            /\ Get(artifacts, "forecast_json")
                 = Supplied(c, "forecast_json", DataUrl(calls[c].region, "forecast.json"))
            /\ Get(artifacts, "summary_json")
                 = Supplied(c, "summary_json", DataUrl(calls[c].region, "summary.json"))
            /\ Get(artifacts, "tiles_base") = Supplied(c, "tiles_base", DefaultTiles)

\* C10 witness: a manifest file that supplies forecast_json and summary_json
\* and no tiles_base
ArtifactsDefinedWitness ==
  \E c \in Discrete :
    LET artifacts == Get(Get(BundleOf(c), "manifest"), "artifacts")
    IN /\ fs["manifest.json"] = "Manifest1"
       /\ Get(artifacts, "forecast_json") = Get(Get(Manifest1, "artifacts"), "forecast_json")
       /\ Get(artifacts, "summary_json") = Get(Get(Manifest1, "artifacts"), "summary_json")
       /\ Get(artifacts, "tiles_base") = DefaultTiles

\* the keys of an object
KeysOf(x) == {x.v[i].key : i \in 1..Len(x.v)}

\* the map of the source document that the structured loader normalises
\* into the band map m of the bundle
StructuredSource(m) ==
  CASE m = "stationSummary" -> Get(ParsedAt("summary.json").v, "stations")
    [] m = "modelSummary" -> Get(ParsedAt("summary.json").v, "model")
    [] m = "stationTimeseries" -> Get(readJsonIfPresent(AbsPath(TimeseriesPath)), "stations")
    [] m = "modelTimeseries" -> Get(readJsonIfPresent(AbsPath(TimeseriesPath)), "model")

\* the keys other than the bands that the band map m of call c may hold
OtherKeys(c, m) ==
  IF ParsedAt("summary.json").k = "json"
    THEN (IF StructuredSource(m).k = "obj" THEN KeysOf(StructuredSource(m)) ELSE {})
  ELSE IF ParsedAt("bundle.json").k = "json"
    THEN (IF m = "modelTimeseries" THEN {"legacy_model"} ELSE {"legacy"})
  ELSE (IF m = "stationSummary" THEN {"legacy"} ELSE {})

\* C11 as stated: each band-keyed map of every returned bundle holds the
\* three band keys and no other key.
ExactlyThreeBands ==
  \A c \in Done : \A m \in BandMapKeys : KeysOf(Get(BundleOf(c), m)) = BandKeys

\* C11 amended: each band-keyed map holds the three band keys, each once;
\* any other key is the synthetic key legacy (legacy_model in
\* modelTimeseries) of the legacy-bundle loader, the key legacy of the
\* discrete loader's stationSummary, or a key of the structured source map;
\* every key is mapped to a list.
BandKeysAndSourceKeys ==
  \A c \in Done : \A m \in BandMapKeys :
    LET map == Get(BundleOf(c), m)
    IN /\ BandKeys \subseteq KeysOf(map)
       /\ KeysOf(map) \ BandKeys \subseteq OtherKeys(c, m)
       /\ Len(map.v) = Cardinality(KeysOf(map))
       /\ \A i \in 1..Len(map.v) : IsArray(map.v[i].val)

\* C11 witness: a legacy bundle with the key legacy beside the bands, its
\* modelTimeseries with the key legacy_model
BandKeysAndSourceKeysWitness ==
  \E c \in Done :
    /\ fs["bundle.json"] = "Bundle1"
    /\ KeysOf(Get(BundleOf(c), "stationSummary")) = BandKeys \cup {"legacy"}
    /\ KeysOf(Get(BundleOf(c), "modelTimeseries")) = BandKeys \cup {"legacy_model"}

\* C12: an unparseable summary.json makes the structured loader return null
\* and the orchestrator go on to bundle.json, whose bundle is returned when
\* it parses; an unparseable bundle.json makes it go on to the
\* discrete-artifact loader, starting with manifest.json.
UnparseableFallsThrough ==
  \A c \in 1..Len(calls) :
    ~Running(c) =>
      /\ fs["summary.json"] = "bad" =>
           /\ BundlePath \in calls[c].reads
           /\ ParsedAt("bundle.json").k = "json" =>
                /\ c \in Done
                /\ BundleOf(c) = LegacyBundle(calls[c].region, ParsedAt("bundle.json").v)
      /\ (fs["bundle.json"] = "bad" /\ ParsedAt("summary.json").k # "json") =>
           /\ ManifestPath \in calls[c].reads
           /\ c \in Done =>
                /\ Get(BundleOf(c), "manifest") = loadManifest(calls[c].region)
                /\ Get(BundleOf(c), "avalanches") = loadAvalanches(calls[c].region)

\* C12 witness: both summary.json and bundle.json unparseable, the bundle
\* built from manifest.json and the artifacts
UnparseableFallsThroughWitness ==
  \E c \in Done :
    /\ fs["summary.json"] = "bad" /\ fs["bundle.json"] = "bad"
    /\ fs["manifest.json"] = "Manifest1"
    /\ Get(Get(BundleOf(c), "manifest"), "version") = Text("v7")

\* C13: a structured summary file with a forecast and no timeseries file give
\* a bundle whose forecast is the summary's, with the same danger rating for
\* each band, and whose stationTimeseries and modelTimeseries are three
\* empty lists.
SummaryWithoutTimeseries ==
  \A c \in 1..Len(calls) :
    (~Running(c) /\ fs["summary.json"] = "Summary1" /\ fs["timeseries.json"] = "absent") =>
      /\ c \in Done
      /\ Get(BundleOf(c), "forecast") # Null
      /\ Get(BundleOf(c), "forecast") = Get(Summary1, "forecast")
      /\ \A band \in BandKeys :
           Get(Get(Get(BundleOf(c), "forecast"), "dangerRatings"), band)
             = Get(Get(Forecast1, "dangerRatings"), band)
      /\ Get(BundleOf(c), "stationTimeseries") = EmptyBands
      /\ Get(BundleOf(c), "modelTimeseries") = EmptyBands

\* C13 witness: such a resolution, which read summary.json and looked for
\* timeseries.json
SummaryWithoutTimeseriesWitness ==
  \E c \in Done :
    /\ fs["summary.json"] = "Summary1" /\ fs["timeseries.json"] = "absent"
    /\ TimeseriesPath \in calls[c].reads
    /\ Get(Get(Get(BundleOf(c), "forecast"), "dangerRatings"), "above_treeline") = Text("high")

\* C14: every record of the avalanche list of every returned bundle,
\* whichever loader built it, is tagged with the requested region.
AvalanchesFiltered ==
  \A c \in Done :
    \A r \in Range(Get(BundleOf(c), "avalanches").v) :
      normalizeRegion(Get(r, "region")) = normalizeRegion(Str(calls[c].region))

\* the station rows of a returned bundle
StationRows(b) ==
  IF HasKey(Get(b, "stationSummary"), "legacy")
    THEN Get(Get(Get(b, "stationSummary"), "legacy").v[1], "rows").v
    ELSE <<>>

\* the rows of a weather-station file that are tagged for south_rockies
TaggedRows(abs) ==
  LET rows == readCsvIfPresent(abs)
  IN IF rows.k = "arr" THEN SelectSeq(rows.v, LAMBDA row : Get(row, "region") \in MatchingTags)
     ELSE <<>>

\* C15: with both weather-station files present, the station rows of the
\* bundle are the matching rows of the shared file together with the
\* matching rows of the regional file.
StationsUnion ==
  \A c \in Discrete :
    (ParsedAt("shared/weather_station.csv").k = "csv"
       /\ ParsedAt("weather_station.csv").k = "csv") =>
      StationRows(BundleOf(c))
        = TaggedRows(SharedFile("weather_station.csv"))
            \o TaggedRows(RegionFile(calls[c].region, "weather_station.csv"))

\* the tokens that are an upper-case letter or white space
UpperOrSpace == {"S", "R", "W", "HTTP:", " ", "\t"}

\* C16: the region of every returned bundle is the canonical form of the
\* requested key: it has no upper-case letter and no space, and two
\* parameters that normalizeRegion identifies yield the same region.
RegionCanonical ==
  \A c \in Done :
    /\ \A i \in 1..Len(Get(BundleOf(c), "region").v) :
         Get(BundleOf(c), "region").v[i] \notin UpperOrSpace
    /\ \A e \in Done :
         normalizeRegion(Str(calls[c].param)) = normalizeRegion(Str(calls[e].param))
           => Get(BundleOf(c), "region") = Get(BundleOf(e), "region")

\* the run time the files supply for a region: that of the first source
\* loadRegionBundle finds
SuppliedRunTime(region) ==
  LET summaryData == readJsonIfPresent(RegionFile(region, "summary.json"))
      payload == readJsonIfPresent(RegionFile(region, "bundle.json"))
      manifest == readJsonIfPresent(RegionFile(region, "manifest.json"))
  IN IF Truthy(summaryData) THEN Get(summaryData, "run_time_utc")
     ELSE IF Truthy(payload) THEN Get(payload, "run_time_utc")
     ELSE Get(manifest, "run_time_utc")

\* the calls that missed the cache, read the files and returned
Misses == {c \in Done : ~calls[c].hit}

\* C17 as stated: two resolutions of one key that both miss the cache and
\* read unchanged files return deep-equal bundles.
LoadsDeepEqual ==
  writeLimit = MaxWrites =>
    \A c \in Misses : \A e \in Misses \cap SameKey(c) : BundleOf(c) = BundleOf(e)

\* C17 amended: two such resolutions return bundles that are deep-equal
\* except for manifest.run_time_utc, which may differ only when the source
\* supplies no run time and each load stamps the time of its own run.
LoadsEqualButRunTime ==
  writeLimit = MaxWrites =>
    \A c \in Misses : \A e \in Misses \cap SameKey(c) :
      /\ Undated(BundleOf(c)) = Undated(BundleOf(e))
      /\ BundleOf(c) # BundleOf(e) =>
           SuppliedRunTime(calls[c].region).k \in {"undef", "null"}

\* C17 witness: two production resolutions of one key in flight at the same
\* time, both past the cache check, whose bundles differ in their time
\* stamp only
LoadsEqualButRunTimeWitness ==
  \E c \in Misses : \E e \in Misses \cap SameKey(c) :
    /\ shouldCache /\ writeLimit = MaxWrites
    /\ Overlap(e, c)
    /\ BundleOf(c) # BundleOf(e)
    /\ Undated(BundleOf(c)) = Undated(BundleOf(e))

\* the fields of a bundle
BundleFields ==
  {"region", "manifest", "forecast", "summary", "avalanches",
   "stationSummary", "stationTimeseries", "modelSummary", "modelTimeseries"}

\* C18: the cache is append-only: a step never removes a key, never changes
\* a bundle already allocated, and changes the value of a key only by
\* storing a reference to a newly built, complete bundle.
CacheAppendOnly ==
  [][/\ DOMAIN bundleCache \subseteq DOMAIN bundleCache'
     /\ Len(heap') >= Len(heap)
     /\ \A i \in 1..Len(heap) : heap'[i] = heap[i]
     /\ \A key \in DOMAIN bundleCache :
          bundleCache'[key] # bundleCache[key] =>
            /\ Len(heap') = Len(heap) + 1
            /\ bundleCache'[key] = Len(heap')
            /\ KeysOf(heap'[Len(heap')]) = BundleFields]_vars

\* C18 witness: a cache of two keys, one of whose values has been replaced
\* by the bundle of a later load while the earlier bundle is still held by
\* the call that built it
CacheAppendOnlyWitness ==
  \E c \in Misses : \E e \in Misses \cap SameKey(c) :
    /\ Cardinality(DOMAIN bundleCache) = 2
    /\ bundleCache[calls[c].region] = calls[c].result
    /\ calls[e].result < calls[c].result
    /\ KeysOf(BundleOf(e)) = BundleFields

\* C19: a resolution made while optional files were unparseable gave the
\* bundle (or the rejection) that resolving gives once those files are
\* absent, all other files being equal: every piece of the bundle is the
\* same.
UnparseableAsAbsent ==
  \A c \in 1..Len(calls) :
    (~Running(c) /\ writeLimit < MaxWrites) =>
      IF c \in Done
        THEN BundleOf(c) = ResolveNow(calls[c].region)
        ELSE ResolveNow(calls[c].region) = Thrown

\* C19 witness: a bundle built from manifest.json and the regional
\* avalanche file while another file was unparseable, that file now removed
UnparseableAsAbsentWitness ==
  \E c \in Discrete :
    /\ writeLimit < MaxWrites
    /\ fs["manifest.json"] = "Manifest1"
    /\ fs["shared/avalanches.json"] = "absent"
    /\ \A slot \in Slots : fs[slot] # "bad"
    /\ Len(Get(BundleOf(c), "avalanches").v) = 1

\* a list of strings
IsStringList(x) == x.k = "arr" /\ \A i \in 1..Len(x.v) : x.v[i].k = "str"

\* the names of the data root's subdirectories other than shared
Subdirectories ==
  LET entries == TextOf(fs["."]).v
  IN {entries[i].name : i \in {j \in 1..Len(entries) :
                                 entries[j].isDirectory /\ entries[j].name # <<"shared">>}}

\* C20: listRegions returns the shared list whenever shared/regions.json
\* parses to an array of strings; otherwise the names of the data root's
\* subdirectories other than shared; the empty list when neither exists;
\* and in every case a list of strings.
ListRegionsContract ==
  \A i \in 1..Len(regionLists) :
    regionLists[i].pc = "done" =>
      LET result == regionLists[i].result
          shared == TextOf(fs["shared/regions.json"])
      IN /\ IsStringList(result)
         /\ IF shared.k = "json" /\ IsStringList(shared.v)
              THEN result = shared.v
            ELSE IF TextOf(fs["."]).k = "dir"
              THEN {result.v[j].v : j \in 1..Len(result.v)} = Subdirectories
            ELSE result = EmptyArr

\* C21: every started resolution completes: once no file read of it is
\* outstanding it has returned a bundle, after a cache check and at most three
\* loader attempts; it never ends in any other way.
EveryCallReturns ==
  \A c \in 1..Len(calls) :
    ~Running(c) => (c \in Done /\ calls[c].nreads <= 9)

\* the loader that a resolution of South_Rockies ends with, given the files
Winner ==
  IF ParsedAt("summary.json").k = "json" THEN "structured"
  ELSE IF ParsedAt("bundle.json").k = "json" THEN "legacy"
  ELSE "discrete"

\* C22: the loaders are attempted in the order structured, legacy,
\* discrete, each only after the ones before it returned null; the bundle is
\* the output of the first that succeeds, and once one has succeeded no file
\* of a later loader is read.
OneLoaderWins ==
  \A c \in 1..Len(calls) :
    /\ calls[c].pc = "timeseries" => (Winner = "structured" /\ calls[c].reads = {SummaryPath})
    /\ calls[c].pc = "bundle" => (Winner # "structured" /\ calls[c].reads = {SummaryPath})
    /\ calls[c].pc \in {"manifest", "artifacts", "rejected"} =>
         (Winner = "discrete" /\ {SummaryPath, BundlePath} \subseteq calls[c].reads)
    /\ calls[c].pc = "manifest" => calls[c].reads = {SummaryPath, BundlePath}
    /\ c \in Done =>
         CASE Winner = "structured" ->
                /\ calls[c].reads = {SummaryPath, TimeseriesPath}
                /\ BundleOf(c) =
                     StructuredBundle(calls[c].region, ParsedAt("summary.json").v,
                                      readJsonIfPresent(AbsPath(TimeseriesPath)))
           [] Winner = "legacy" ->
                /\ calls[c].reads = {SummaryPath, BundlePath}
                /\ BundleOf(c) = LegacyBundle(calls[c].region, ParsedAt("bundle.json").v)
           [] OTHER ->
                /\ {SummaryPath, BundlePath, ManifestPath} \subseteq calls[c].reads
                /\ TimeseriesPath \notin calls[c].reads
                /\ BundleOf(c) # LegacyBundle(calls[c].region, Null)

\* C22 witness: the legacy bundle returned with manifest.json, the avalanche
\* files and the station files all holding data that was never read
OneLoaderWinsWitness ==
  \E c \in Done :
    /\ Winner = "legacy"
    /\ fs["manifest.json"] = "Manifest1"
    /\ fs["shared/avalanches.json"] = "SharedAvalanches1"
    /\ fs["weather_station.csv"] = "RegionalStations1"
    /\ calls[c].nreads = 2

\* C23 as stated: in the discrete path, when the shared weather_station.csv
\* parses, the station rows of the bundle are exactly its rows for the region,
\* and the regional file supplies none.
SharedStationsOnly ==
  \A c \in Discrete :
    ParsedAt("shared/weather_station.csv").k = "csv" =>
      StationRows(BundleOf(c)) = TaggedRows(SharedFile("weather_station.csv"))

\* C23: in the discrete path, when the shared weather_station.csv holds at
\* least one row for the region, the station rows of the bundle are exactly
\* those rows; otherwise (shared file absent, unparseable or without a row for
\* the region) they are the regional file's rows for the region.
SharedStationsFirst ==
  \A c \in Discrete :
    StationRows(BundleOf(c)) =
      IF Len(TaggedRows(SharedFile("weather_station.csv"))) > 0
        THEN TaggedRows(SharedFile("weather_station.csv"))
        ELSE TaggedRows(RegionFile(calls[c].region, "weather_station.csv"))

\* C23 witness: both files hold rows for the region and only the shared ones
\* are in the bundle
SharedStationsFirstWitness ==
  \E c \in Discrete :
    /\ fs["shared/weather_station.csv"] = "SharedStations1"
    /\ fs["weather_station.csv"] = "RegionalStations1"
    /\ Len(TaggedRows(RegionFile(calls[c].region, "weather_station.csv"))) > 0
    /\ Len(StationRows(BundleOf(c))) = 2

\* the calls whose bundle the legacy loader built, and a flat block of the
\* bundle.json they read
Legacy == {c \in Done : Winner = "legacy"}
FlatBlock(name) == Get(ParsedAt("bundle.json").v, name)

\* a flat block that holds no data: every list in it is empty
EmptyBlock(block) ==
  \/ block.k = "arr" /\ Len(block.v) = 0
  \/ block.k = "obj" /\ \A i \in 1..Len(block.v) :
                          block.v[i].val.k = "arr" /\ Len(block.v[i].val.v) = 0

\* the flat data of bundle.json sits under the synthetic keys of the bundle
\* of call c, each key holding one entry, and the canonical bands are empty
RemappedUnderLegacy(c) ==
  LET b == BundleOf(c)
      stations == Get(Get(b, "stationSummary"), "legacy")
      model == Get(Get(b, "modelSummary"), "legacy")
      stationSeries == Get(Get(b, "stationTimeseries"), "legacy")
      modelSeries == Get(Get(b, "modelTimeseries"), "legacy_model")
  IN /\ \A m \in BandMapKeys : \A band \in BandKeys : Get(Get(b, m), band) = EmptyArr
     /\ stations.k = "arr" =>
          /\ Len(stations.v) = 1
          /\ Get(stations.v[1], "rows") = FlatBlock("weatherStations")
     /\ model.k = "arr" =>
          /\ Len(model.v) = 1
          /\ Get(model.v[1], "columns") = Get(FlatBlock("modelTable"), "columns")
          /\ Get(model.v[1], "rows") = Get(FlatBlock("modelTable"), "rows")
     /\ stationSeries.k = "arr" =>
          /\ Len(stationSeries.v) = 1
          /\ Get(stationSeries.v[1], "x") = Get(FlatBlock("timeseries"), "x")
          /\ Get(stationSeries.v[1], "series") = Get(FlatBlock("timeseries"), "series")
     /\ modelSeries.k = "arr" =>
          /\ Len(modelSeries.v) = 1
          /\ Get(modelSeries.v[1], "x") = Get(FlatBlock("timeseries"), "x")
          /\ Get(modelSeries.v[1], "series") = Get(FlatBlock("timeseries"), "series")

\* C24 as stated: with the legacy bundle.json the winning source, each flat
\* block that is present and not empty is remapped under its synthetic key,
\* and an absent or empty block adds no synthetic key.
LegacyRemapNonEmpty ==
  \A c \in Legacy :
    LET b == BundleOf(c)
        Has(block) == Truthy(FlatBlock(block)) /\ ~EmptyBlock(FlatBlock(block))
    IN /\ RemappedUnderLegacy(c)
       /\ HasKey(Get(b, "stationSummary"), "legacy") <=> Has("weatherStations")
       /\ HasKey(Get(b, "modelSummary"), "legacy") <=> Has("modelTable")
       /\ HasKey(Get(b, "stationTimeseries"), "legacy") <=> Has("timeseries")
       /\ HasKey(Get(b, "modelTimeseries"), "legacy_model") <=> Has("timeseries")

\* C24: with the legacy bundle.json the winning source, a non-empty
\* weatherStations list becomes one table at stationSummary.legacy holding all
\* its rows, a modelTable that is present becomes one table at
\* modelSummary.legacy, a timeseries block that is present becomes one entry
\* at stationTimeseries.legacy and one at modelTimeseries.legacy_model with
\* its x and series, empty or not; the canonical bands hold empty lists; an
\* absent block, and an empty weatherStations list, add no synthetic key.
LegacyRemap ==
  \A c \in Legacy :
    LET b == BundleOf(c)
    IN /\ RemappedUnderLegacy(c)
       /\ HasKey(Get(b, "stationSummary"), "legacy")
            <=> (Truthy(FlatBlock("weatherStations")) /\ ~EmptyBlock(FlatBlock("weatherStations")))
       /\ HasKey(Get(b, "modelSummary"), "legacy") <=> Truthy(FlatBlock("modelTable"))
       /\ HasKey(Get(b, "stationTimeseries"), "legacy") <=> Truthy(FlatBlock("timeseries"))
       /\ HasKey(Get(b, "modelTimeseries"), "legacy_model") <=> Truthy(FlatBlock("timeseries"))
       /\ \A m \in BandMapKeys :
            KeysOf(Get(b, m)) \subseteq BandKeys \cup {"legacy", "legacy_model"}

\* C24 witness: a legacy bundle whose three flat blocks all hold data, the
\* station table holding both original rows
LegacyRemapWitness ==
  \E c \in Legacy :
    /\ fs["bundle.json"] = "Bundle1"
    /\ Len(Get(Get(Get(BundleOf(c), "stationSummary"), "legacy").v[1], "rows").v) = 2
    /\ HasKey(Get(BundleOf(c), "modelTimeseries"), "legacy_model")

\* C25: in production, a resolution that starts after a resolution of a
\* parameter with the same normalized region has returned a bundle is served
\* from the cache and reads no file.
NormalizedKeyCached ==
  shouldCache =>
    \A c \in 1..Len(calls) : \A e \in calls[c].after :
      (/\ calls[e].pc = "done"
       /\ normalizeRegion(Str(calls[e].param)) = normalizeRegion(Str(calls[c].param)))
        => (calls[c].hit /\ calls[c].nreads = 0)

\* C26: in production, two resolutions of one key that were in flight at the
\* same time and both passed the cache check have each read the files and
\* each built an object of its own; once returned, the cache holds for the key
\* the object of whichever load of that key returned last.
RacingLoadsBothRun ==
  shouldCache =>
    \A c \in Misses : \A e \in Misses \cap SameKey(c) :
      Overlap(e, c) =>
        /\ calls[c].nreads >= 2 /\ calls[e].nreads >= 2
        /\ calls[c].result # calls[e].result
        /\ calls[c].region \in DOMAIN bundleCache
        /\ bundleCache[calls[c].region] = Latest(Misses \cap SameKey(c))

\* C26 witness: two overlapping loads of one key have both returned, the
\* cache holds the object of the one that returned last, and the other caller
\* holds an object that is no longer cached and differs in content
RacingLoadsWitness ==
  \E c \in Misses : \E e \in Misses \cap SameKey(c) :
    /\ shouldCache
    /\ Overlap(e, c)
    /\ calls[e].result < calls[c].result
    /\ bundleCache[calls[c].region] = calls[c].result
    /\ BundleOf(e) # BundleOf(c)

\* C27: every file a resolution reads lies inside public/, whatever the
\* region key and the artifact locations of manifest.json; an http(s)
\* location is not read and leaves its piece of the bundle null.
ReadsInsidePublic ==
  \A c \in 1..Len(calls) :
    /\ \A p \in calls[c].reads : Len(p) >= 1 /\ p[1] = Seg("public")
    /\ (c \in Discrete /\ fs["manifest.json"] = "Manifest1"
          /\ calls[c].region = SouthRockies)
         => Get(BundleOf(c), "summary") = Null

\* C28: once a register request for an email and a password has been
\* answered with success, every credentials sign-in with that email and that
\* password returns the user, and every sign-in with that email and another
\* password returns null.
RegisterThenSignIn ==
  \A i \in 1..Len(authLog) : \A j \in (i + 1)..Len(authLog) :
    (/\ authLog[i].op = "register" /\ authLog[i].status = 200
     /\ authLog[j].op = "authorize" /\ authLog[j].email = authLog[i].email)
      => IF authLog[j].password = authLog[i].password
           THEN authLog[j].user # Null /\ Get(authLog[j].user, "email") = authLog[i].email
           ELSE authLog[j].user = Null

\* C30: the callback URL the login page hands on is the default, or the raw
\* parameter where that begins with exactly one "/", does not begin with
\* /_next or /api/ and does not end with .svg.
SameOriginCallback ==
  callback # NotRendered =>
    \/ callback.callbackUrl = DefaultCallback
    \/ /\ callback.callbackUrl = callback.raw
       /\ callback.raw.k = "str"
       /\ StartsWith(callback.raw.v, <<"/">>)
       /\ ~StartsWith(callback.raw.v, <<"/", "/">>)
       /\ ~StartsWith(callback.raw.v, <<"/", "_next">>)
       /\ ~StartsWith(callback.raw.v, <<"/", "api", "/">>)
       /\ ~EndsWith(callback.raw.v, <<".svg">>)

\* the selection a row query was issued for
SelectionOf(qid) ==
  [varCode |-> component.queries[qid].varCode,
   levelCode |-> component.queries[qid].levelCode,
   metric |-> component.queries[qid].metric]

\* the rows displayed are those the latest query returned
RowsOfLatest ==
  \A i \in 1..Len(component.rows) : component.rows[i] = SelectionOf(component.latestQuery)

\* C29 as stated: once the latest row query has completed, the rows
\* displayed are not those of a superseded selection.
NoSupersededRows ==
  (/\ component.latestQuery > 0
   /\ component.queries[component.latestQuery].pc \in {"done", "failed"})
    => RowsOfLatest

\* C29: a row query that is no longer the latest when one of its awaits
\* settles changes none of rows, columns, error, note and the loading flag;
\* and once the latest row query has returned its table, the rows displayed
\* are those of its selection.
OnlyLatestWrites ==
  /\ []((/\ component.latestQuery > 0
         /\ component.queries[component.latestQuery].pc \in {"closing", "done"})
          => RowsOfLatest)
  /\ [][\A qid \in 1..Len(component.queries) :
          (/\ qid # component.latestQuery
           /\ component'.queries[qid].pc # component.queries[qid].pc)
            => /\ component'.rows = component.rows
               /\ component'.cols = component.cols
               /\ component'.err = component.err
               /\ component'.note = component.note
               /\ component'.loading = component.loading]_vars

\* C29 witness: a superseded query returned its table after the latest one
\* did, both have finished, and the rows displayed are the latest one's
OnlyLatestWritesWitness ==
  /\ component.latestQuery = 2
  /\ component.finished = <<2, 1>>
  /\ component.queries[1].pc = "done"
  /\ component.queries[2].pc = "done"
  /\ SelectionOf(1) # SelectionOf(2)
  /\ component.rows = <<SelectionOf(2)>>
  /\ ~component.loading

====
